---- MODULE Spec2Model ----
(***************************************************************************)
(* CodePatternMaster backend (src/backend): the pattern catalog, the       *)
(* lookups by id and by name, the feedback scorer of main.py, the          *)
(* regex-based output simulator of code_execution.py, the hosted-model     *)
(* analyzer of ai_models.py, the DatabaseManager of database.py and the    *)
(* subprocess runner of enhanced_main.py.                                  *)
(*                                                                         *)
(* The handlers of main.py keep no state between requests, so their state  *)
(* is the request being handled, the response it was given and the catalog *)
(* record its handler had selected.  The two module-level objects          *)
(* ai_analyzer and db_manager, the rows of the hosted database, and the    *)
(* files and requests of the subprocess runner are the rest of the state.  *)
(* Source text, names and outputs are TLA+ strings handled character by    *)
(* character; scores are counted in tenths (3 stands for 0.3) where the    *)
(* code adds tenths, and in hundredths where it adds hundredths.           *)
(***************************************************************************)
EXTENDS Integers, Sequences, FiniteSets, TLC

VARIABLES
    request,     \* the request being handled, NoRequest when there is none
    response,    \* the response of its handler
    selected,    \* the handler's local variable `pattern` when it finished
    ai_analyzer, \* ai_models.ai_analyzer: the pipelines it holds
    db_manager,  \* database.db_manager: the client it holds
    tables,      \* the rows of the hosted database, table by table
    cwd,         \* the working directory of the server process
    files,       \* the files on disk: path -> [content, writer]
    procs        \* the /execute-code requests of enhanced_main.py in flight

\* the state of the stateless handlers
serviceVars == <<request, response, selected>>

\* the module-level objects and the database behind them
hostedVars == <<ai_analyzer, db_manager, tables>>

\* the disk and the requests of the subprocess runner
sandboxVars == <<cwd, files, procs>>

vars == <<request, response, selected, ai_analyzer, db_manager, tables, cwd, files, procs>>

(***************************************************************************)
(* Bounds of the model.                                                    *)
(***************************************************************************)
\* a submitted code text is made of at most MaxFrags fragments
MaxFrags == 2

\* GET /patterns/{id} is tried for every id in 0..MaxPatternId
MaxPatternId == 70

\* the scorer is also called with patterns of 0..MaxLoops loops and
\* 0..MaxConditions conditions
MaxLoops == 2
MaxConditions == 1

(***************************************************************************)
(* Python string primitives used by the handlers.                          *)
(***************************************************************************)
\* s[i-1]: the i-th character of s, as a one-character string
CharAt(s, i) == SubSeq(s, i, i)

\* needle in hay
Contains(hay, needle) ==
    \E i \in 1..(Len(hay) - Len(needle) + 1) :
        SubSeq(hay, i, i + Len(needle) - 1) = needle

\* hay.startswith(needle, i-1): needle occurs in hay at position i
OccursAt(hay, needle, i) ==
    /\ i >= 1
    /\ i + Len(needle) - 1 <= Len(hay)
    /\ SubSeq(hay, i, i + Len(needle) - 1) = needle

\* hay.count(needle), for a needle no two occurrences of which can overlap
\* (such as "for"): the number of positions where it occurs
Count(hay, needle) ==
    Cardinality({i \in 1..Len(hay) : OccursAt(hay, needle, i)})

UpperLetters == "ABCDEFGHIJKLMNOPQRSTUVWXYZ"
LowerLetters == "abcdefghijklmnopqrstuvwxyz"

\* the position of the one-character string c in the alphabet abc, 0 if absent
IndexIn(abc, c) ==
    IF \E i \in 1..Len(abc) : CharAt(abc, i) = c
    THEN CHOOSE i \in 1..Len(abc) : CharAt(abc, i) = c
    ELSE 0

LowerChar(c) ==
    IF IndexIn(UpperLetters, c) > 0
    THEN CharAt(LowerLetters, IndexIn(UpperLetters, c))
    ELSE c

UpperChar(c) ==
    IF IndexIn(LowerLetters, c) > 0
    THEN CharAt(UpperLetters, IndexIn(LowerLetters, c))
    ELSE c

\* s.lower(), character by character (the text is halved at each step)
RECURSIVE Lower(_)
Lower(s) ==
    IF Len(s) = 0 THEN ""
    ELSE IF Len(s) = 1 THEN LowerChar(s)
    ELSE Lower(SubSeq(s, 1, Len(s) \div 2))
             \o Lower(SubSeq(s, Len(s) \div 2 + 1, Len(s)))

\* s.upper()
RECURSIVE Upper(_)
Upper(s) ==
    IF Len(s) = 0 THEN ""
    ELSE IF Len(s) = 1 THEN UpperChar(s)
    ELSE Upper(SubSeq(s, 1, Len(s) \div 2))
             \o Upper(SubSeq(s, Len(s) \div 2 + 1, Len(s)))

\* min(a, b)
Min(a, b) == IF a <= b THEN a ELSE b

(***************************************************************************)
(* The catalog: get_sample_patterns(), in table order.                     *)
(***************************************************************************)
\* the record built with a rows value one above the one given
Pattern_RowsOffByOne(id, name, category, difficulty, description, preview, rows, popularity, completion_rate, formula, loops, conditions) ==
    [id |-> id, name |-> name, category |-> category,
     difficulty |-> difficulty, description |-> description,
     preview |-> preview, rows |-> rows + 1, popularity |-> popularity,
     completion_rate |-> completion_rate, formula |-> formula,
     loops |-> loops, conditions |-> conditions]

\* class Pattern(BaseModel)
Pattern(id, name, category, difficulty, description, preview, rows, popularity, completion_rate, formula, loops, conditions) ==
    [id |-> id, name |-> name, category |-> category,
     difficulty |-> difficulty, description |-> description,
     preview |-> preview, rows |-> rows, popularity |-> popularity,
     completion_rate |-> completion_rate, formula |-> formula,
     loops |-> loops, conditions |-> conditions]

get_sample_patterns == <<
    Pattern(1, "Square Pattern (Solid)", "basic-star", "easy",
            "A solid square filled with stars",
            <<"****", "****", "****", "****">>, 4, 95, 92,
            "stars = n, spaces = 0", 2, 0),
    Pattern(2, "Right Triangle Pattern", "basic-star", "easy",
            "Stars forming a right triangle",
            <<"*", "**", "***", "****">>, 4, 98, 95,
            "stars = i, spaces = 0", 2, 0),
    Pattern(3, "Left Triangle Pattern", "basic-star", "easy",
            "Stars aligned to the left forming triangle",
            <<"   *", "  **", " ***", "****">>, 4, 87, 89,
            "stars = i, spaces = n-i", 2, 0),
    Pattern(4, "Inverted Right Triangle", "basic-star", "easy",
            "Upside-down right triangle",
            <<"****", "***", "**", "*">>, 4, 85, 88,
            "stars = n-i+1, spaces = 0", 2, 0),
    Pattern(5, "Isosceles Triangle", "basic-star", "easy",
            "Centered triangle with equal sides",
            <<"  *  ", " *** ", "*****">>, 3, 91, 90,
            "stars = 2*i+1, spaces = n-i-1", 2, 0),
    Pattern(11, "Hollow Square", "hollow", "medium",
            "Square with hollow interior",
            <<"****", "*  *", "*  *", "****">>, 4, 84, 76,
            "stars = n (if first/last row/col), spaces = n-2 (middle)", 2, 4),
    Pattern(31, "Diamond Pattern (Solid)", "diamond", "medium",
            "Solid diamond shape",
            <<"  *  ", " *** ", "*****", " *** ", "  *  ">>, 5, 89, 82,
            "stars = 2*i+1 (upper), 2*(n-i-1)+1 (lower), spaces = n-i-1", 2, 1),
    Pattern(32, "Hollow Diamond", "diamond", "medium",
            "Diamond with hollow center",
            <<"  *  ", " * * ", "*   *", " * * ", "  *  ">>, 5, 85, 76,
            "stars = 1 (if first/last), spaces = n-i-1 + i-1 (middle)", 2, 4),
    Pattern(41, "Number Triangle (1,2,3...)", "number", "easy",
            "Triangle with sequential numbers",
            <<"1", "12", "123", "1234">>, 4, 92, 88,
            "numbers = 1 to i", 2, 0),
    Pattern(66, "Butterfly Pattern", "special", "hard",
            "Butterfly wing pattern",
            <<"*    *", "**  **", "******", "**  **", "*    *">>, 5, 91, 67,
            "stars = i+1 (left), 2*(n-i-1) (right), spaces = 2*(n-i-1)", 2, 2),
    Pattern(69, "X Pattern (Cross)", "special", "medium",
            "X or cross pattern",
            <<"*   *", " * * ", "  *  ", " * * ", "*   *">>, 5, 86, 78,
            "stars = 1 (if i==j or i+j==n-1)", 2, 2)
>>

\* Python's None
None == [none |-> TRUE]

\* next((p for p in patterns if p.id == pattern_id), None)
FindById(pattern_id) ==
    LET patterns == get_sample_patterns
        hits == {i \in 1..Len(patterns) : patterns[i].id = pattern_id}
    IN  IF hits = {} THEN None
        ELSE patterns[CHOOSE i \in hits : \A j \in hits : i <= j]

(***************************************************************************)
(* Regular-expression matching as re.findall / re.search perform it on the *)
(* three patterns of code_execution.py.                                    *)
(***************************************************************************)
\* the character class ["\']
IsQuote(c) == c \in {"'", "\""}

\* \s on ASCII text
IsSpace(c) == c \in {" ", "\t", "\n", "\r"}

\* \d on ASCII text
IsDigit(c) == c \in {"0", "1", "2", "3", "4", "5", "6", "7", "8", "9"}

\* the calls of the set that occur in code at position i (at most one does)
CallsAt(code, calls, i) == {c \in calls : OccursAt(code, c, i)}

\* <call>["\'](.*?)["\'] tried at position i: the position of the closing
\* quote, 0 when the pattern does not match there.  The lazy group stops at
\* the first quote character, and "." does not cross a newline.
ClosingQuote(code, calls, i) ==
    IF CallsAt(code, calls, i) = {} THEN 0
    ELSE LET call == CHOOSE c \in CallsAt(code, calls, i) : TRUE
             open == i + Len(call)
             ends == {j \in (open + 1)..Len(code) : IsQuote(CharAt(code, j))}
         IN  IF open > Len(code) \/ ~IsQuote(CharAt(code, open)) \/ ends = {}
             THEN 0
             ELSE LET j == CHOOSE e \in ends : \A f \in ends : e <= f
                  IN  IF \E k \in (open + 1)..(j - 1) : CharAt(code, k) = "\n"
                      THEN 0
                      ELSE j

\* re.findall(<call>["\'](.*?)["\'], code) from position i on: the captured
\* groups of the successive non-overlapping matches, in source order.  The
\* scan resumes right after the closing quote of each match.
RECURSIVE FindAllFrom(_, _, _)
FindAllFrom(code, calls, i) ==
    LET starts == {k \in i..Len(code) : ClosingQuote(code, calls, k) # 0}
    IN  IF starts = {} THEN <<>>
        ELSE LET k == CHOOSE a \in starts : \A b \in starts : a <= b
                 j == ClosingQuote(code, calls, k)
                 call == CHOOSE c \in CallsAt(code, calls, k) : TRUE
             IN  <<SubSeq(code, k + Len(call) + 1, j - 1)>>
                     \o FindAllFrom(code, calls, j + 1)

FindAll(code, calls) == FindAllFrom(code, calls, 1)

\* the first position >= i of code that holds no whitespace (\s*); the
\* position after the end when only whitespace follows
SkipSpace(code, i) ==
    CHOOSE j \in i..(Len(code) + 1) :
        /\ j = Len(code) + 1 \/ ~IsSpace(CharAt(code, j))
        /\ \A k \in i..(j - 1) : IsSpace(CharAt(code, k))

\* the first position >= i of code that holds no digit (\d+, greedy)
SkipDigits(code, i) ==
    CHOOSE j \in i..(Len(code) + 1) :
        /\ j = Len(code) + 1 \/ ~IsDigit(CharAt(code, j))
        /\ \A k \in i..(j - 1) : IsDigit(CharAt(code, k))

\* n\s*=\s*(\d+) tried at position i: the captured digits, "" when the
\* pattern does not match there
NAssignAt(code, i) ==
    IF CharAt(code, i) # "n" THEN ""
    ELSE LET eq == SkipSpace(code, i + 1)
         IN  IF eq > Len(code) \/ CharAt(code, eq) # "=" THEN ""
             ELSE LET d == SkipSpace(code, eq + 1)
                  IN  SubSeq(code, d, SkipDigits(code, d) - 1)

\* re.search(r'n\s*=\s*(\d+)', code): group(1) of the leftmost match, "" for
\* no match (None)
NSearch(code) ==
    LET hits == {i \in 1..Len(code) : NAssignAt(code, i) # ""}
    IN  IF hits = {} THEN ""
        ELSE NAssignAt(code, CHOOSE i \in hits : \A j \in hits : i <= j)

(***************************************************************************)
(* Integers read from the text.  int() is unbounded, but "*" * n raises    *)
(* OverflowError as soon as n exceeds sys.maxsize = 2^63 - 1.              *)
(***************************************************************************)
SysMaxSize == "9223372036854775807"

\* digits without their leading zeros (a lone "0" is kept)
StripZeros(digits) ==
    LET first == CHOOSE j \in 1..Len(digits) :
                     /\ j = Len(digits) \/ CharAt(digits, j) # "0"
                     /\ \A k \in 1..(j - 1) : CharAt(digits, k) = "0"
    IN  SubSeq(digits, first, Len(digits))

DigitValue(c) == IndexIn("0123456789", c) - 1

\* a < b for two digit strings of the same length
DigitsLess(a, b) ==
    \E k \in 1..Len(a) :
        /\ SubSeq(a, 1, k - 1) = SubSeq(b, 1, k - 1)
        /\ DigitValue(CharAt(a, k)) < DigitValue(CharAt(b, k))

\* int(digits) > sys.maxsize
ExceedsIndexSize(digits) ==
    LET d == StripZeros(digits)
    IN  \/ Len(d) > Len(SysMaxSize)
        \/ Len(d) = Len(SysMaxSize) /\ DigitsLess(SysMaxSize, d)

\* int(digits), for the values the model's integers hold
RECURSIVE IntOf(_)
IntOf(digits) ==
    IF digits = "" THEN 0
    ELSE 10 * IntOf(SubSeq(digits, 1, Len(digits) - 1))
             + DigitValue(CharAt(digits, Len(digits)))

\* s * n
RECURSIVE Repeat(_, _)
Repeat(s, n) == IF n <= 0 THEN "" ELSE s \o Repeat(s, n - 1)

\* every element of the sequence followed by a newline, concatenated
RECURSIVE JoinLines(_)
JoinLines(lines) ==
    IF lines = <<>> THEN ""
    ELSE Head(lines) \o "\n" \o JoinLines(Tail(lines))

\* code.split('\n')
RECURSIVE SplitLines(_)
SplitLines(code) ==
    IF ~Contains(code, "\n") THEN <<code>>
    ELSE LET nl == CHOOSE i \in 1..Len(code) :
                       /\ CharAt(code, i) = "\n"
                       /\ \A j \in 1..(i - 1) : CharAt(code, j) # "\n"
         IN  <<SubSeq(code, 1, nl - 1)>>
                 \o SplitLines(SubSeq(code, nl + 1, Len(code)))

(***************************************************************************)
(* code_execution.py: the simulators.  Each returns the output text and,   *)
(* as a history value, whether its except clause ran.                      *)
(***************************************************************************)
OverflowMessage == "cannot fit 'int' into an index-sized integer"

\* the secondary heuristic of simulate_python_execution (lines 95-110): what
\* it appends to the output, and whether it raised
PythonStarHeuristic(code) ==
    LET noop == [text |-> "", raised |-> FALSE]
        lines == SplitLines(code)
        n_match == NSearch(code)
    IN  IF ~(Contains(code, "print('*'") \/ Contains(code, "print('*',"))
        THEN noop
        ELSE IF ~Contains(code, "for") THEN noop
        ELSE IF ~\E k \in 1..Len(lines) :
                    \/ Contains(lines[k], "print('*'")
                    \/ Contains(lines[k], "print('*',")
        THEN noop
        ELSE IF ~Contains(code, "range") THEN noop
        ELSE IF n_match = ""
        THEN [text |-> "Simulated pattern output\n", raised |-> FALSE]
        ELSE IF ExceedsIndexSize(n_match)
        THEN [text |-> "", raised |-> TRUE]
        ELSE LET n == IntOf(n_match)
             IN  [text |-> Repeat(Repeat("*", n) \o "\n", n), raised |-> FALSE]

simulate_python_execution(code) ==
    IF Contains(code, "print")
    THEN LET print_matches == FindAll(code, {"print("})
             star == PythonStarHeuristic(code)
         IN  IF star.raised
             THEN [output |-> JoinLines(print_matches)
                                  \o "Execution error: " \o OverflowMessage \o "\n",
                   fault |-> TRUE]
             ELSE [output |-> JoinLines(print_matches) \o star.text,
                   fault |-> FALSE]
    ELSE IF Contains(code, "for") /\ Contains(code, "*")
    THEN [output |-> "Simulated pattern execution\n", fault |-> FALSE]
    ELSE [output |-> "Code executed successfully\n", fault |-> FALSE]

simulate_javascript_execution(code) ==
    IF Contains(code, "console.log")
    THEN LET log_matches == FindAll(code, {"console.log("})
         IN  [output |-> JoinLines(log_matches)
                  \o (IF Contains(code, "console.log('*'")
                      THEN IF Contains(code, "for")
                           THEN "Simulated JavaScript pattern output\n"
                           ELSE "*\n"
                      ELSE ""),
              fault |-> FALSE]
    ELSE [output |-> "JavaScript code executed\n", fault |-> FALSE]

simulate_java_execution(code) ==
    IF Contains(code, "System.out.println") \/ Contains(code, "System.out.print")
    THEN LET print_matches ==
                 FindAll(code, {"System.out.println(", "System.out.print("})
         IN  [output |-> JoinLines(print_matches)
                  \o (IF Contains(code, "System.out.print") /\ Contains(code, "*")
                      THEN "Simulated Java pattern output\n"
                      ELSE ""),
              fault |-> FALSE]
    ELSE [output |-> "Java code executed\n", fault |-> FALSE]

\* the dict simulate_code_execution returns; fault is the history value
simulate_code_execution(code, language) ==
    LET sim == IF language = "python" THEN simulate_python_execution(code)
               ELSE IF language = "javascript"
                    THEN simulate_javascript_execution(code)
               ELSE IF language = "java" THEN simulate_java_execution(code)
               ELSE [output |-> "Language '" \o language
                                    \o "' not supported for execution",
                     fault |-> FALSE]
    IN  [output |-> sim.output, language |-> language,
         execution_time |-> "0.1s", status |-> "success", fault |-> sim.fault]

(***************************************************************************)
(* main.py: the feedback scorer.  Scores are in tenths.                    *)
(***************************************************************************)
\* generate_code_feedback: the parts it joins with " "
generate_code_feedback(user_code, pattern) ==
    IF user_code = "" THEN <<"Please write some code to get feedback!">>
    ELSE (IF Contains(user_code, "for")
          THEN <<"Good! You're using loops.">>
          ELSE <<"Try using loops to iterate through rows.">>)
      \o (IF \/ Contains(user_code, "print")
             \/ Contains(user_code, "console.log")
             \/ Contains(user_code, "System.out.print")
          THEN <<"Great! You're printing output.">>
          ELSE <<"Don't forget to print the pattern!">>)
      \o (IF pattern # None /\ pattern.loops > 1 /\ Count(user_code, "for") >= 2
          THEN <<"Excellent! You're using nested loops correctly.">>
          ELSE IF pattern # None /\ pattern.loops > 1
               THEN <<"This pattern needs nested loops.">>
               ELSE <<>>)

generate_code_suggestions(user_code, pattern) ==
    IF user_code = ""
    THEN <<"Start by creating a variable for the pattern size",
           "Use a for loop to iterate through rows">>
    ELSE (IF ~Contains(user_code, "range") /\ Contains(user_code, "for")
          THEN <<"Use range() function for loop iteration">> ELSE <<>>)
      \o (IF pattern # None /\ pattern.conditions > 0 /\ ~Contains(user_code, "if")
          THEN <<"Add conditional statements for special cases">> ELSE <<>>)
      \o (IF ~Contains(user_code, "print")
          THEN <<"Add print statements to display the pattern">> ELSE <<>>)

\* generate_progressive_hints: the hints, or the AttributeError raised by
\* pattern.rows / pattern.loops when pattern is None
generate_progressive_hints(pattern, user_code) ==
    IF user_code = ""
    THEN IF pattern = None
         THEN [raised |-> "AttributeError", hints |-> <<>>]
         ELSE [raised |-> "",
               hints |-> <<"Start with a variable n = " \o ToString(pattern.rows),
                           "Create a loop from 0 to n-1",
                           "Calculate spaces and stars for each row",
                           "Print spaces, then stars, then newline">>]
    ELSE IF ~Contains(user_code, "for")
    THEN [raised |-> "",
          hints |-> <<"Add a for loop to iterate through rows",
                      "Use range() function for the loop">>]
    ELSE IF pattern = None
    THEN [raised |-> "AttributeError", hints |-> <<>>]
    ELSE IF Count(user_code, "for") < pattern.loops
    THEN [raised |-> "",
          hints |-> <<"You need nested loops for this pattern",
                      "Add an inner loop for columns">>]
    ELSE [raised |-> "",
          hints |-> <<"Great progress! Now add the print statements",
                      "Make sure to print newline after each row">>]

\* the loop check with its weight subtracted (score -= 0.3)
LoopCheck_Subtracts(user_code) == IF Contains(user_code, "for") THEN 0 - 3 ELSE 0

\* the weight of the "uses a loop construct" check
LoopCheck(user_code) == IF Contains(user_code, "for") THEN 3 ELSE 0

\* the nested-loop check asking for exactly two loops (== 2 for >= 2)
NestedLoopCheck_ExactlyTwo(user_code, pattern) ==
    IF pattern # None /\ pattern.loops > 1 /\ Count(user_code, "for") = 2
    THEN 3 ELSE 0

\* the weight of the "uses nested loops when required" check
NestedLoopCheck(user_code, pattern) ==
    IF pattern # None /\ pattern.loops > 1 /\ Count(user_code, "for") >= 2
    THEN 3 ELSE 0

\* the output check looking for print alone
OutputCheck_PrintOnly(user_code) ==
    IF Contains(user_code, "print") THEN 2 ELSE 0

\* the weight of the "produces output" check
OutputCheck(user_code) ==
    IF \/ Contains(user_code, "print")
       \/ Contains(user_code, "console.log")
       \/ Contains(user_code, "System.out.print")
    THEN 2 ELSE 0

\* the weight of the "uses a conditional when required" check
ConditionCheck(user_code, pattern) ==
    IF pattern # None /\ pattern.conditions > 0 /\ Contains(user_code, "if")
    THEN 2 ELSE 0

\* the scorer returning full marks on its early exit (return 1.0)
calculate_correctness_score_EmptyIsFull(user_code, pattern) ==
    IF user_code = "" THEN 10
    ELSE Min(10, LoopCheck(user_code) + NestedLoopCheck(user_code, pattern)
                     + OutputCheck(user_code) + ConditionCheck(user_code, pattern))

calculate_correctness_score(user_code, pattern) ==
    IF user_code = "" THEN 0
    ELSE Min(10, LoopCheck(user_code) + NestedLoopCheck(user_code, pattern)
                     + OutputCheck(user_code) + ConditionCheck(user_code, pattern))

(***************************************************************************)
(* main.py: lookup by name and the code templates.                         *)
(***************************************************************************)
\* the search in one phase: the first row whose lower-cased name contains the
\* lower-cased query
FindByNameIn_OnePhase(patterns, pattern_name) ==
    LET partial == {i \in 1..Len(patterns) :
                        Contains(Lower(patterns[i].name), Lower(pattern_name))}
    IN  IF partial # {}
        THEN patterns[CHOOSE i \in partial : \A j \in partial : i <= j]
        ELSE None

\* the two-phase search of lines 172-176 over a list of patterns: the first
\* row whose lower-cased name equals the lower-cased query, else the first
\* row whose lower-cased name contains it, else None
FindByNameIn(patterns, pattern_name) ==
    LET exact == {i \in 1..Len(patterns) :
                      Lower(patterns[i].name) = Lower(pattern_name)}
        partial == {i \in 1..Len(patterns) :
                        Contains(Lower(patterns[i].name), Lower(pattern_name))}
    IN  IF exact # {}
        THEN patterns[CHOOSE i \in exact : \A j \in exact : i <= j]
        ELSE IF partial # {}
        THEN patterns[CHOOSE i \in partial : \A j \in partial : i <= j]
        ELSE None

\* the search comparing the query as it was typed (pattern_name for
\* pattern_name.lower())
FindByName_QueryNotLowered(pattern_name) ==
    LET patterns == get_sample_patterns
        exact == {i \in 1..Len(patterns) :
                      Lower(patterns[i].name) = pattern_name}
        partial == {i \in 1..Len(patterns) :
                        Contains(Lower(patterns[i].name), pattern_name)}
    IN  IF exact # {}
        THEN patterns[CHOOSE i \in exact : \A j \in exact : i <= j]
        ELSE IF partial # {}
        THEN patterns[CHOOSE i \in partial : \A j \in partial : i <= j]
        ELSE None

\* the search falling back on the first row (patterns[0] for None)
FindByName_DefaultsToFirst(pattern_name) ==
    LET patterns == get_sample_patterns
        exact == {i \in 1..Len(patterns) :
                      Lower(patterns[i].name) = Lower(pattern_name)}
        partial == {i \in 1..Len(patterns) :
                        Contains(Lower(patterns[i].name), Lower(pattern_name))}
    IN  IF exact # {}
        THEN patterns[CHOOSE i \in exact : \A j \in exact : i <= j]
        ELSE IF partial # {}
        THEN patterns[CHOOSE i \in partial : \A j \in partial : i <= j]
        ELSE patterns[1]

\* the search of generate_detailed_code (lines 171-176) over the catalog
FindByName(pattern_name) == FindByNameIn(get_sample_patterns, pattern_name)

\* the generator with a fixed text for the languages it has no branch for
generate_code_template_NoStubForOtherLanguages(p, language) ==
    IF language = "python"
    THEN IF p.id = 1
         THEN "# Square Pattern (Solid)\nn = 4\nfor i in range(n):\n"
                  \o "    for j in range(n):\n        print('*', end='')\n"
                  \o "    print()"
         ELSE IF p.id = 2
         THEN "# Right Triangle Pattern\nn = 4\nfor i in range(1, n + 1):\n"
                  \o "    print('*' * i)"
         ELSE IF p.id = 31
         THEN "# Diamond Pattern\nn = 5\n# Upper half\n"
                  \o "for i in range(n//2 + 1):\n"
                  \o "    spaces = ' ' * (n//2 - i)\n"
                  \o "    stars = '*' * (2*i + 1)\n"
                  \o "    print(spaces + stars)\n    \n# Lower half\n"
                  \o "for i in range(n//2 - 1, -1, -1):\n"
                  \o "    spaces = ' ' * (n//2 - i)\n"
                  \o "    stars = '*' * (2*i + 1)\n"
                  \o "    print(spaces + stars)"
         ELSE "# " \o p.name \o "\n# TODO: Implement this pattern\n# Formula: "
                  \o p.formula
    ELSE IF language = "javascript"
    THEN IF p.id = 2
         THEN "// Right Triangle Pattern\nconst n = 4;\n"
                  \o "for (let i = 1; i <= n; i++) {\n"
                  \o "    console.log('*'.repeat(i));\n}"
         ELSE "// " \o p.name \o "\n// TODO: Implement this pattern\n// Formula: "
                  \o p.formula
    ELSE "// Code template not available"

generate_code_template(p, language) ==
    IF language = "python"
    THEN IF p.id = 1
         THEN "# Square Pattern (Solid)\nn = 4\nfor i in range(n):\n"
                  \o "    for j in range(n):\n        print('*', end='')\n"
                  \o "    print()"
         ELSE IF p.id = 2
         THEN "# Right Triangle Pattern\nn = 4\nfor i in range(1, n + 1):\n"
                  \o "    print('*' * i)"
         ELSE IF p.id = 31
         THEN "# Diamond Pattern\nn = 5\n# Upper half\n"
                  \o "for i in range(n//2 + 1):\n"
                  \o "    spaces = ' ' * (n//2 - i)\n"
                  \o "    stars = '*' * (2*i + 1)\n"
                  \o "    print(spaces + stars)\n    \n# Lower half\n"
                  \o "for i in range(n//2 - 1, -1, -1):\n"
                  \o "    spaces = ' ' * (n//2 - i)\n"
                  \o "    stars = '*' * (2*i + 1)\n"
                  \o "    print(spaces + stars)"
         ELSE "# " \o p.name \o "\n# TODO: Implement this pattern\n# Formula: "
                  \o p.formula
    ELSE IF language = "javascript"
    THEN IF p.id = 2
         THEN "// Right Triangle Pattern\nconst n = 4;\n"
                  \o "for (let i = 1; i <= n; i++) {\n"
                  \o "    console.log('*'.repeat(i));\n}"
         ELSE "// " \o p.name \o "\n// TODO: Implement this pattern\n// Formula: "
                  \o p.formula
    ELSE "// " \o p.name \o "\n// TODO: Implement this pattern\n// Formula: "
             \o p.formula

(***************************************************************************)
(* The analyses of POST /ai/analyze.                                       *)
(***************************************************************************)
\* max(len(line) for line in preview)
MaxLineLen(preview) ==
    CHOOSE m \in {Len(preview[i]) : i \in 1..Len(preview)} :
        \A i \in 1..Len(preview) : Len(preview[i]) <= m

\* sum(len(line) for line in preview)
RECURSIVE SumLineLen(_)
SumLineLen(preview) ==
    IF preview = <<>> THEN 0
    ELSE Len(Head(preview)) + SumLineLen(Tail(preview))

\* len(line.replace(" ", ""))
NonSpaceLen(line) == Cardinality({i \in 1..Len(line) : CharAt(line, i) # " "})

\* sum(len(line.replace(" ", "")) for line in preview)
RECURSIVE SumNonSpaceLen(_)
SumNonSpaceLen(preview) ==
    IF preview = <<>> THEN 0
    ELSE NonSpaceLen(Head(preview)) + SumNonSpaceLen(Tail(preview))

\* set("".join(preview))
CharsOf(preview) ==
    UNION {{CharAt(preview[i], k) : k \in 1..Len(preview[i])} :
               i \in 1..Len(preview)}

\* a / b of two ints, kept as the fraction
Quotient(a, b) == [numerator |-> a, denominator |-> b]

analyze_visual_pattern(p) ==
    [rows |-> p.rows,
     columns |-> MaxLineLen(p.preview),
     total_elements |-> SumLineLen(p.preview),
     unique_elements |-> Cardinality(CharsOf(p.preview)),
     symmetry |-> IF Contains(Lower(p.name), "diamond")
                         \/ Contains(Lower(p.name), "x")
                  THEN "symmetric" ELSE "asymmetric",
     density |-> Quotient(SumNonSpaceLen(p.preview), SumLineLen(p.preview))]

analyze_mathematical_pattern(p) ==
    [formula |-> p.formula,
     complexity |-> IF p.difficulty = "medium" THEN "O(nÂ²)"
                    ELSE IF p.difficulty = "easy" THEN "O(n)" ELSE "O(nÂ³)",
     loops |-> p.loops,
     conditions |-> p.conditions,
     growth_pattern |->
         IF Len(p.preview[1]) < Len(p.preview[Len(p.preview)])
         THEN "increasing" ELSE "decreasing"]

analyze_logical_pattern(p) ==
    [nested_loops |-> p.loops,
     conditions |-> p.conditions,
     variables |-> <<"i", "j", "spaces", "stars">>,
     approach |-> IF p.difficulty = "easy" THEN "direct iteration"
                  ELSE IF p.difficulty = "medium" THEN "conditional logic"
                  ELSE "complex algorithms"]

\* An Optional[str] is <<>> for None and <<s>> for the string s.
Some(s) == <<s>>

\* `user_code and needle in user_code`
CodeHas(user_code, needle) ==
    /\ user_code # <<>>
    /\ user_code[1] # ""
    /\ Contains(user_code[1], needle)

analyze_implementation_pattern(p, user_code) ==
    [code_structure |->
         IF CodeHas(user_code, "for") THEN "good" ELSE "needs_improvement",
     variable_usage |->
         IF CodeHas(user_code, "i") THEN "appropriate" ELSE "missing",
     loop_structure |->
         IF CodeHas(user_code, "range") THEN "correct" ELSE "incorrect"]

generate_suggestions(p, analysis_type) ==
    IF analysis_type = "visual"
    THEN <<"Try to identify the symmetry in this pattern",
           "Count the elements in each row to find the pattern",
           "Notice how the pattern changes from row to row">>
    ELSE IF analysis_type = "mathematical"
    THEN <<"Use the formula: " \o p.formula,
           "This pattern requires " \o ToString(p.loops) \o " nested loops",
           "Calculate spaces and stars for each row">>
    ELSE IF analysis_type = "logical"
    THEN <<"Start with the outer loop for rows",
           "Use inner loop for columns",
           "Apply conditions for special cases">>
    ELSE <<>>

\* min(1.0, base_score + loop_penalty + condition_penalty), in hundredths
calculate_complexity_score(p) ==
    LET base_score == IF p.difficulty = "easy" THEN 30
                      ELSE IF p.difficulty = "medium" THEN 60 ELSE 90
        loop_penalty == p.loops * 10
        condition_penalty == p.conditions * 5
    IN  Min(100, base_score + loop_penalty + condition_penalty)

(***************************************************************************)
(* The inputs of the requests.                                             *)
(***************************************************************************)
\* the nested loops of the solid-square program
SquareLoops ==
    "for i in range(n):\n for j in range(n):\n  print('*', end='')\n print()\n"

\* pieces of submitted source text, language by language
PythonFragments == {
    "n = 4\n",
    "n = 2\n",
    "n = 99999999999999999999\n",
    SquareLoops,
    "print('Hello World')\n",
    "print('*')\n",
    "if i == j:\n",
    "while i < n:\n",
    "row = '*' * n\n",
    "print(i)\n",
    "for"
}

JavaScriptFragments == {
    "console.log('Hello World');\n",
    "console.log('*');\n",
    "for (let i = 0; i < n; i++)\n",
    "if (i == j)\n"
}

JavaFragments == {
    "System.out.println(\"Hello World\");\n",
    "System.out.print(\"*\");\n",
    "for (int i = 0; i < n; i++)\n",
    "if (i == j)\n"
}

CppFragments == {"std::cout << \"*\";\n"}

FragmentsOf(language) ==
    IF language = "python" THEN PythonFragments
    ELSE IF language = "javascript" THEN JavaScriptFragments
    ELSE IF language = "java" THEN JavaFragments
    ELSE CppFragments

\* the texts made of at most k of the fragments
RECURSIVE Codes(_, _)
Codes(fragments, k) ==
    IF k = 0 THEN {""}
    ELSE Codes(fragments, k - 1)
             \cup {c \o f : c \in Codes(fragments, k - 1), f \in fragments}

Languages == {"python", "javascript", "java", "cpp"}

\* the code texts submitted in a language
CodeInputs(language) == Codes(FragmentsOf(language), MaxFrags)

\* the code texts of all languages
AllCodeInputs == UNION {CodeInputs(language) : language \in Languages}

CatalogIds == {get_sample_patterns[i].id : i \in 1..Len(get_sample_patterns)}

\* the ids of feedback requests: every catalog id and the id after it,
\* which for some is the id of no pattern
FeedbackIds == CatalogIds \cup {id + 1 : id \in CatalogIds}

\* the patterns handed to the scorer: none, the catalog's, and records with
\* every small loops / conditions value
ScorePatterns ==
    {None}
        \cup {get_sample_patterns[i] : i \in 1..Len(get_sample_patterns)}
        \cup {[get_sample_patterns[1] EXCEPT !.loops = l, !.conditions = c] :
                  l \in 0..MaxLoops, c \in 0..MaxConditions}

\* c with its case inverted
SwapChar(c) == IF IndexIn(UpperLetters, c) > 0 THEN LowerChar(c) ELSE UpperChar(c)

\* the upper/lower-case variants of a name that are tried: the name itself,
\* all lower case, all upper case, and each single character inverted
CaseVariants(name) ==
    {name, Lower(name), Upper(name)}
        \cup {SubSeq(name, 1, i - 1) \o SwapChar(CharAt(name, i))
                  \o SubSeq(name, i + 1, Len(name)) : i \in 1..Len(name)}

CatalogNames == {get_sample_patterns[i].name : i \in 1..Len(get_sample_patterns)}

\* names of a request: the variants of the catalog names, and names that
\* belong to no pattern, some of them part of a catalog name
OtherNames == {"Invalid Pattern", "", "Pattern", "hollow", "TRIANGLE",
               "Square Pattern", "Diamond Pattern (Solid)!", "Pentagon"}

NameInputs == UNION {CaseVariants(name) : name \in CatalogNames} \cup OtherNames

\* the analysis types of a request: the four the handler knows, and others
AnalysisTypeInputs ==
    {"visual", "mathematical", "logical", "implementation",
     "invalid", "", "Visual"}

\* the user_code of an analysis request: None, or a text
UserCodeInputs == {<<>>, Some(""), Some(SquareLoops), Some("print('*')\n")}

\* the JSON objects posted to /ai/generate-detailed-code: a name and a
\* language, a name alone, a language alone, and an object with neither
DetailedCodeBodies ==
    {[pattern_name |-> pattern_name, language |-> language] :
         pattern_name \in NameInputs, language \in Languages}
        \cup {[pattern_name |-> pattern_name] : pattern_name \in OtherNames}
        \cup {[language |-> language] : language \in Languages}
        \cup {[invalid |-> "data"]}

\* the JSON objects posted to /execute-code: code and language, code alone,
\* language alone, and an object with neither
ExecuteBodies ==
    UNION {{[code |-> code, language |-> language] :
                code \in CodeInputs(language)} : language \in Languages}
        \cup {[language |-> language] : language \in Languages}
        \cup {[code |-> code] : code \in {"", "print('Hello World')\n"}}
        \cup {[invalid |-> "data"]}

\* the languages a template is asked for: the four of the platform, and
\* names that are none of them
TemplateLanguages == Languages \cup {"ruby", "", "Python"}

(***************************************************************************)
(* The handlers.  A response is [status, body]; an exception that escapes  *)
(* a handler is answered with status 500 by the framework.  A handler runs *)
(* on an incoming request when the server holds none; Reply sends the      *)
(* response back and leaves the server as it was at start.                 *)
(***************************************************************************)
NoRequest == [handler |-> "none"]
NoResponse == [status |-> 0, body |-> None]

HTTPException(status_code, detail) ==
    [status |-> status_code, body |-> [detail |-> detail]]

InternalServerError(exception) ==
    [status |-> 500, body |-> [exception |-> exception]]

\* ai_analyzer and db_manager as their constructors leave them when neither
\* the models nor the client could be set up; no handler of main.py that
\* Next runs reads either
NotLoaded == [code_classifier |-> None, code_generator |-> None]
NotConnected == [supabase |-> None]
NoRows == [user_progress |-> <<>>, pattern_attempts |-> <<>>, ai_analyses |-> <<>>]

\* no /execute-code request of enhanced_main.py is in flight
Workers == {"w1", "w2"}
NoProcs == [w \in Workers |-> [pc |-> "idle"]]

Init ==
    /\ request = NoRequest
    /\ response = NoResponse
    /\ selected = None
    /\ ai_analyzer = NotLoaded
    /\ db_manager = NotConnected
    /\ tables = NoRows
    /\ cwd = "/app"
    /\ files = {}
    /\ procs = NoProcs

\* request.get(key, default) on the JSON object of a request
Get(body, key, default) == IF key \in DOMAIN body THEN body[key] ELSE default

\* the handler without its final raise: the loop ends and None is returned
get_pattern_NoRaise(pattern_id) ==
    /\ request = NoRequest
    /\ request' = [handler |-> "get_pattern", pattern_id |-> pattern_id]
    /\ LET patterns == get_sample_patterns
           hits == {i \in 1..Len(patterns) : patterns[i].id = pattern_id}
       IN  IF hits # {}
           THEN /\ selected' = patterns[CHOOSE i \in hits : \A j \in hits : i <= j]
                /\ response' = [status |-> 200, body |-> selected']
           ELSE /\ selected' = None
                /\ response' = [status |-> 200, body |-> None]

\* GET /patterns/{pattern_id}
get_pattern(pattern_id) ==
    /\ request = NoRequest
    /\ request' = [handler |-> "get_pattern", pattern_id |-> pattern_id]
    /\ LET patterns == get_sample_patterns
           hits == {i \in 1..Len(patterns) : patterns[i].id = pattern_id}
       IN  IF hits # {}
           THEN /\ selected' = patterns[CHOOSE i \in hits : \A j \in hits : i <= j]
                /\ response' = [status |-> 200, body |-> selected']
           ELSE /\ selected' = None
                /\ response' = HTTPException(404, "Pattern not found")

\* POST /ai/code-feedback
get_code_feedback(pattern_id, user_code, language) ==
    /\ request = NoRequest
    /\ request' = [handler |-> "get_code_feedback", pattern_id |-> pattern_id,
                   user_code |-> user_code, language |-> language]
    /\ selected' = FindById(pattern_id)
    /\ response' =
           LET feedback == generate_code_feedback(user_code, selected')
               suggestions == generate_code_suggestions(user_code, selected')
               hints == generate_progressive_hints(selected', user_code)
           IN  IF hints.raised # ""
               THEN InternalServerError(hints.raised)
               ELSE [status |-> 200,
                     body |-> [feedback |-> feedback,
                               suggestions |-> suggestions,
                               correctness_score |->
                                   calculate_correctness_score(user_code, selected'),
                               hints |-> hints.hints]]

\* the handler as it would go on if line 184 had its explanation: it answers
\* 200 with the selected pattern
generate_detailed_code_ExplanationDefined(body) ==
    /\ request = NoRequest
    /\ LET pattern_name == Get(body, "pattern_name", "")
           language == Get(body, "language", "python")
       IN  /\ request' = [handler |-> "generate_detailed_code", body |-> body,
                          pattern_name |-> pattern_name, language |-> language]
           /\ selected' = FindByName(pattern_name)
           /\ response' =
                  IF selected' = None
                  THEN HTTPException(404, "Pattern '" \o pattern_name
                                              \o "' not found")
                  ELSE [status |-> 200,
                        body |-> [pattern |-> selected'.name,
                                  language |-> language,
                                  generated_code |->
                                      generate_code_template(selected', language),
                                  explanation |-> "",
                                  difficulty |-> selected'.difficulty,
                                  complexity |->
                                      calculate_complexity_score(selected')]]

\* POST /ai/generate-detailed-code
generate_detailed_code(body) ==
    /\ request = NoRequest
    /\ LET pattern_name == Get(body, "pattern_name", "")
           language == Get(body, "language", "python")
       IN  /\ request' = [handler |-> "generate_detailed_code", body |-> body,
                          pattern_name |-> pattern_name, language |-> language]
           /\ selected' = FindByName(pattern_name)
           /\ response' =
                  IF selected' = None
                  THEN HTTPException(404, "Pattern '" \o pattern_name
                                              \o "' not found")
                  ELSE LET generated_code ==
                               generate_code_template(selected', language)
                       \* main.py neither defines nor imports
                       \* generate_detailed_explanation: line 184 raises
                       \* NameError
                       IN  InternalServerError("NameError")

\* a call of calculate_correctness_score(user_code, pattern)
CalculateCorrectnessScore(user_code, p) ==
    /\ request = NoRequest
    /\ request' = [handler |-> "calculate_correctness_score",
                   user_code |-> user_code]
    /\ selected' = p
    /\ response' = [status |-> 200,
                    body |-> calculate_correctness_score(user_code, p)]

\* a call of code_execution.simulate_code_execution(code, language)
SimulateCodeExecution(code, language) ==
    /\ request = NoRequest
    /\ request' = [handler |-> "simulate_code_execution", code |-> code,
                   language |-> language]
    /\ response' = [status |-> 200, body |-> simulate_code_execution(code, language)]
    /\ selected' = None

\* AIAnalysisResponse(analysis_type=..., results=..., suggestions=...,
\* complexity_score=...) returned with status 200
AIAnalysisResponse(analysis_type, results, p) ==
    [status |-> 200,
     body |-> [analysis_type |-> analysis_type,
               results |-> results,
               suggestions |-> generate_suggestions(p, analysis_type),
               complexity_score |-> calculate_complexity_score(p)]]

\* the handler with its two checks in the other order: the analysis type is
\* looked at before the pattern
analyze_pattern_TypeCheckedFirst(pattern_id, analysis_type, user_code) ==
    /\ request = NoRequest
    /\ request' = [handler |-> "analyze_pattern", pattern_id |-> pattern_id,
                   analysis_type |-> analysis_type, user_code |-> user_code]
    /\ selected' = FindById(pattern_id)
    /\ response' =
           IF analysis_type \notin {"visual", "mathematical", "logical",
                                    "implementation"}
           THEN HTTPException(400, "Invalid analysis type")
           ELSE IF selected' = None
           THEN HTTPException(404, "Pattern not found")
           ELSE IF analysis_type = "visual"
           THEN AIAnalysisResponse(analysis_type,
                                   analyze_visual_pattern(selected'), selected')
           ELSE IF analysis_type = "mathematical"
           THEN AIAnalysisResponse(analysis_type,
                                   analyze_mathematical_pattern(selected'),
                                   selected')
           ELSE IF analysis_type = "logical"
           THEN AIAnalysisResponse(analysis_type,
                                   analyze_logical_pattern(selected'), selected')
           ELSE IF analysis_type = "implementation"
           THEN AIAnalysisResponse(analysis_type,
                                   analyze_implementation_pattern(selected',
                                                                  user_code),
                                   selected')
           ELSE HTTPException(400, "Invalid analysis type")

\* POST /ai/analyze
analyze_pattern(pattern_id, analysis_type, user_code) ==
    /\ request = NoRequest
    /\ request' = [handler |-> "analyze_pattern", pattern_id |-> pattern_id,
                   analysis_type |-> analysis_type, user_code |-> user_code]
    /\ selected' = FindById(pattern_id)
    /\ response' =
           IF selected' = None
           THEN HTTPException(404, "Pattern not found")
           ELSE IF analysis_type = "visual"
           THEN AIAnalysisResponse(analysis_type,
                                   analyze_visual_pattern(selected'), selected')
           ELSE IF analysis_type = "mathematical"
           THEN AIAnalysisResponse(analysis_type,
                                   analyze_mathematical_pattern(selected'),
                                   selected')
           ELSE IF analysis_type = "logical"
           THEN AIAnalysisResponse(analysis_type,
                                   analyze_logical_pattern(selected'), selected')
           ELSE IF analysis_type = "implementation"
           THEN AIAnalysisResponse(analysis_type,
                                   analyze_implementation_pattern(selected',
                                                                  user_code),
                                   selected')
           ELSE HTTPException(400, "Invalid analysis type")

\* the simulator main.py calls for a language: a name it neither defines nor
\* imports
SimulatorOf(language) == "simulate_" \o language \o "_execution"

\* the handler without its check of `code`
execute_code_NoCodeCheck(body) ==
    /\ request = NoRequest
    /\ request' = [handler |-> "execute_code", body |-> body]
    /\ selected' = None
    /\ LET code == Get(body, "code", "")
           language == Get(body, "language", "python")
       IN  response' =
               IF language \in {"python", "javascript", "java"}
               THEN [status |-> 200,
                     body |-> [output |-> "Error: name '" \o SimulatorOf(language)
                                              \o "' is not defined",
                               language |-> language,
                               execution_time |-> "0.0s",
                               status |-> "error"]]
               ELSE [status |-> 200,
                     body |-> [output |-> "Language '" \o language
                                              \o "' not supported for execution",
                               language |-> language,
                               execution_time |-> "0.1s",
                               status |-> "success"]]

\* POST /execute-code of main.py
execute_code(body) ==
    /\ request = NoRequest
    /\ request' = [handler |-> "execute_code", body |-> body]
    /\ selected' = None
    /\ LET code == Get(body, "code", "")
           language == Get(body, "language", "python")
       IN  response' =
               IF code = ""
               THEN HTTPException(400, "No code provided")
               \* the call of the simulator raises NameError inside the try;
               \* `except Exception` answers with the error body
               ELSE IF language \in {"python", "javascript", "java"}
               THEN [status |-> 200,
                     body |-> [output |-> "Error: name '" \o SimulatorOf(language)
                                              \o "' is not defined",
                               language |-> language,
                               execution_time |-> "0.0s",
                               status |-> "error"]]
               ELSE [status |-> 200,
                     body |-> [output |-> "Language '" \o language
                                              \o "' not supported for execution",
                               language |-> language,
                               execution_time |-> "0.1s",
                               status |-> "success"]]

\* POST /ai/generate-code
generate_code(pattern_id, language) ==
    /\ request = NoRequest
    /\ request' = [handler |-> "generate_code", pattern_id |-> pattern_id,
                   language |-> language]
    /\ selected' = FindById(pattern_id)
    /\ response' =
           IF selected' = None
           THEN HTTPException(404, "Pattern not found")
           ELSE [status |-> 200,
                 body |-> [generated_code |->
                               generate_code_template(selected', language),
                           pattern |-> selected',
                           language |-> language]]

\* GET /patterns; category and difficulty are Optional[str]
get_patterns(category, difficulty, limit) ==
    /\ request = NoRequest
    /\ request' = [handler |-> "get_patterns", category |-> category,
                   difficulty |-> difficulty, limit |-> limit]
    /\ selected' = None
    /\ response' = [status |-> 200, body |-> get_sample_patterns]

\* the response is returned to the caller
Reply ==
    /\ request # NoRequest
    /\ request' = NoRequest
    /\ response' = NoResponse
    /\ selected' = None
    /\ UNCHANGED <<hostedVars, sandboxVars>>

\* A request arrives when the server holds none, and its handler runs.
OnGetPattern ==
    /\ request = NoRequest
    /\ \E pattern_id \in 0..MaxPatternId : get_pattern(pattern_id)
    /\ UNCHANGED <<hostedVars, sandboxVars>>

OnCodeFeedback ==
    /\ request = NoRequest
    /\ \E pattern_id \in FeedbackIds, language \in Languages :
           \E user_code \in CodeInputs(language) :
               get_code_feedback(pattern_id, user_code, language)
    /\ UNCHANGED <<hostedVars, sandboxVars>>

OnCorrectnessScore ==
    /\ request = NoRequest
    /\ \E user_code \in AllCodeInputs, p \in ScorePatterns :
           CalculateCorrectnessScore(user_code, p)
    /\ UNCHANGED <<hostedVars, sandboxVars>>

OnGenerateDetailedCode ==
    /\ request = NoRequest
    /\ \E body \in DetailedCodeBodies : generate_detailed_code(body)
    /\ UNCHANGED <<hostedVars, sandboxVars>>

OnSimulate ==
    /\ request = NoRequest
    /\ \E language \in Languages :
           \E code \in CodeInputs(language) :
               SimulateCodeExecution(code, language)
    /\ UNCHANGED <<hostedVars, sandboxVars>>

OnAnalyzePattern ==
    /\ request = NoRequest
    /\ \E pattern_id \in FeedbackIds, analysis_type \in AnalysisTypeInputs,
          user_code \in UserCodeInputs :
           analyze_pattern(pattern_id, analysis_type, user_code)
    /\ UNCHANGED <<hostedVars, sandboxVars>>

OnExecuteCode ==
    /\ request = NoRequest
    /\ \E body \in ExecuteBodies : execute_code(body)
    /\ UNCHANGED <<hostedVars, sandboxVars>>

OnGenerateCode ==
    /\ request = NoRequest
    /\ \E pattern_id \in FeedbackIds, language \in TemplateLanguages :
           generate_code(pattern_id, language)
    /\ UNCHANGED <<hostedVars, sandboxVars>>

\* the query parameters of GET /patterns that are tried; 50 is the default
CategoryInputs == {<<>>, Some("hollow"), Some("basic-star"), Some("spiral")}
DifficultyInputs == {<<>>, Some("hard"), Some("easy")}
LimitInputs == {50, 5, 0}

OnGetPatterns ==
    /\ request = NoRequest
    /\ \E category \in CategoryInputs, difficulty \in DifficultyInputs,
          limit \in LimitInputs :
           get_patterns(category, difficulty, limit)
    /\ UNCHANGED <<hostedVars, sandboxVars>>

Next ==
    \/ OnGetPattern
    \/ OnCodeFeedback
    \/ OnCorrectnessScore
    \/ OnGenerateDetailedCode
    \/ OnSimulate
    \/ OnAnalyzePattern
    \/ OnExecuteCode
    \/ OnGenerateCode
    \/ OnGetPatterns
    \/ Reply

Spec == Init /\ [][Next]_vars

(***************************************************************************)
(* The feedback scorer.                                                    *)
(***************************************************************************)
\* a call of the scorer has returned
ScoreReturned == request.handler = "calculate_correctness_score"

\* POST /ai/code-feedback has answered 200
FeedbackAnswered ==
    request.handler = "get_code_feedback" /\ response.status = 200

\* C1: with empty user code the correctness score is exactly 0.0, for every
\* catalog pattern, every loops / conditions value and without a pattern.
C1_EmptyCodeScoresZero ==
    /\ ScoreReturned /\ request.user_code = "" => response.body = 0
    /\ FeedbackAnswered /\ request.user_code = ""
           => response.body.correctness_score = 0

\* C1 witness: the scorer returned 0 for empty code and a pattern that asks
\* for nested loops and for conditions.
C1_Witness ==
    /\ ScoreReturned
    /\ request.user_code = ""
    /\ selected # None
    /\ selected.loops > 1
    /\ selected.conditions > 0
    /\ response.body = 0

\* C2: for every code and every pattern (or none) the correctness score lies
\* in [0, 1]: never negative, never above 1.0 (10 tenths).
C2_ScoreInUnitInterval ==
    /\ ScoreReturned => response.body \in 0..10
    /\ FeedbackAnswered => response.body.correctness_score \in 0..10

\* C2 witness: all four rubric checks are awarded and the score is 1.0.
C2_Witness ==
    /\ ScoreReturned
    /\ Count(request.user_code, "for") >= 2
    /\ Contains(request.user_code, "print")
    /\ Contains(request.user_code, "if")
    /\ selected # None
    /\ selected.conditions > 0
    /\ response.body = 10

\* the code with a `for` token added at its end or at its start, alone or
\* set off by a blank or a newline
WithForAdded(code) ==
    {code \o "for", code \o " for", code \o "\nfor",
     "for" \o code, "for " \o code, "for\n" \o code}

\* C3: adding a `for` token to the code never decreases the correctness
\* score, whatever the code and the pattern.
C3_AddingForNeverDecreases ==
    ScoreReturned =>
        \A added \in WithForAdded(request.user_code) :
            calculate_correctness_score(added, selected) >= response.body

\* C3 witness: a code with one `for` and a print call scored 0.5 for a
\* pattern of two loops, and scores 0.8 once a second `for` is added.
C3_Witness ==
    /\ ScoreReturned
    /\ selected # None
    /\ selected.loops > 1
    /\ Count(request.user_code, "for") = 1
    /\ response.body = 5
    /\ calculate_correctness_score(request.user_code \o "for", selected) = 8

(***************************************************************************)
(* The output simulator.                                                   *)
(***************************************************************************)
\* a call of simulate_code_execution has finished
Simulated == request.handler = "simulate_code_execution"

\* print calls whose direct argument is a quoted string literal, with the
\* literal each one prints
PrintCallsOf(language) ==
    IF language = "python"
    THEN {[text |-> "print('Hello World')\n", literal |-> "Hello World"],
          [text |-> "print('*')\n", literal |-> "*"]}
    ELSE IF language = "javascript"
    THEN {[text |-> "console.log('Hello World');\n", literal |-> "Hello World"],
          [text |-> "console.log('*');\n", literal |-> "*"]}
    ELSE IF language = "java"
    THEN {[text |-> "System.out.println(\"Hello World\");\n",
           literal |-> "Hello World"],
          [text |-> "System.out.print(\"*\");\n", literal |-> "*"]}
    ELSE {}

\* the source text of a sequence of print calls
RECURSIVE SourceOf(_)
SourceOf(calls) ==
    IF calls = <<>> THEN "" ELSE Head(calls).text \o SourceOf(Tail(calls))

\* the literals of a sequence of print calls, in source order
LiteralsOf(calls) == [i \in 1..Len(calls) |-> calls[i].literal]

\* C4: for python, javascript and java, code made of print calls whose direct
\* argument is a quoted literal is simulated with status success and an
\* output made of exactly those literals, one per line, in source order.
C4_PrintCallsYieldTheirLiterals ==
    Simulated =>
        \A n \in 1..MaxFrags :
            \A calls \in [1..n -> PrintCallsOf(request.language)] :
                request.code = SourceOf(calls) =>
                    /\ response.status = 200
                    /\ response.body.status = "success"
                    /\ response.body.output = JoinLines(LiteralsOf(calls))

\* C5: Python code that assigns n = k, loops over range(n) and prints a lone
\* '*' with print('*', end='') is simulated as exactly k lines of k stars and
\* no other line.
C5_SquareIsExactlyKLinesOfKStars ==
    Simulated /\ request.language = "python" =>
        \A k \in 1..9 :
            request.code = "n = " \o ToString(k) \o "\n" \o SquareLoops =>
                response.body.output = Repeat(Repeat("*", k) \o "\n", k)

\* C6: the simulator returns to its caller whatever the code and the
\* language; when a fault occurred inside it the status is "error" and the
\* output carries "Execution error: <message>", and the status is "success"
\* only when no fault occurred.
C6_FaultsAreReportedAsErrors ==
    Simulated =>
        /\ response.status = 200
        /\ response.body.fault =>
               /\ response.body.status = "error"
               /\ Contains(response.body.output, "Execution error: ")
        /\ response.body.status = "success" => ~response.body.fault

(***************************************************************************)
(* POST /ai/code-feedback.                                                 *)
(***************************************************************************)
\* the generic starter hints
IsStarterHints(hints) ==
    /\ Len(hints) = 4
    /\ SubSeq(hints[1], 1, 26) = "Start with a variable n = "
    /\ hints[2] = "Create a loop from 0 to n-1"
    /\ hints[3] = "Calculate spaces and stars for each row"
    /\ hints[4] = "Print spaces, then stars, then newline"

\* C7: POST /ai/code-feedback never fails: for every user_code and every
\* pattern_id, in the catalog or not, it answers with feedback, suggestions,
\* score and hints; for empty code the score is 0 and the hints are the
\* starter hints.
C7_FeedbackNeverFails ==
    request.handler = "get_code_feedback" =>
        /\ response.status = 200
        /\ request.user_code = "" =>
               /\ response.body.correctness_score = 0
               /\ IsStarterHints(response.body.hints)

(***************************************************************************)
(* Lookup by id and by name.                                               *)
(***************************************************************************)
\* C8: GET /patterns/{id} returns exactly the catalog pattern that carries
\* the id, and ends in 404 "Pattern not found" for an id that no catalog
\* pattern carries.
C8_LookupByIdRoundTrip ==
    request.handler = "get_pattern" =>
        /\ \A i \in 1..Len(get_sample_patterns) :
               get_sample_patterns[i].id = request.pattern_id =>
                   /\ response.status = 200
                   /\ response.body = get_sample_patterns[i]
        /\ request.pattern_id \notin CatalogIds =>
               /\ response.status = 404
               /\ response.body.detail = "Pattern not found"

\* C8 witness: the lookup of id 66 returned the Butterfly Pattern record.
C8_Witness ==
    /\ request.handler = "get_pattern"
    /\ request.pattern_id = 66
    /\ response.status = 200
    /\ response.body.name = "Butterfly Pattern"
    /\ response.body = get_sample_patterns[10]

\* two characters that are equal or the two cases of one letter
SameLetter(c, d) ==
    \/ c = d
    \/ \E k \in 1..Len(UpperLetters) :
           {c, d} = {CharAt(UpperLetters, k), CharAt(LowerLetters, k)}

\* two names that differ in the case of their letters at most
EqualIgnoringCase(a, b) ==
    /\ Len(a) = Len(b)
    /\ \A i \in 1..Len(a) : SameLetter(CharAt(a, i), CharAt(b, i))

\* part is, ignoring case, a piece of name
ContainsIgnoringCase(name, part) ==
    \E i \in 1..(Len(name) - Len(part) + 1) :
        EqualIgnoringCase(SubSeq(name, i, i + Len(part) - 1), part)

\* C9: for every catalog pattern P, lookup by any upper/lower-case variant of
\* P.name selects a record whose name equals P.name ignoring case.
C9_LookupByNameIgnoresCase ==
    request.handler = "generate_detailed_code" =>
        \A i \in 1..Len(get_sample_patterns) :
            EqualIgnoringCase(request.pattern_name, get_sample_patterns[i].name)
                => /\ selected # None
                   /\ EqualIgnoringCase(selected.name, get_sample_patterns[i].name)

\* C9 witness: the upper-case name HOLLOW DIAMOND selected pattern 32.
C9_Witness ==
    /\ request.handler = "generate_detailed_code"
    /\ request.pattern_name = "HOLLOW DIAMOND"
    /\ selected # None
    /\ selected.id = 32

\* C10: lookup by a name that matches no catalog pattern, neither in full nor
\* as a part of a name, ends in the 404 NotFound outcome and in no other
\* failure.
C10_UnknownNameIsNotFound ==
    /\ request.handler = "generate_detailed_code"
    /\ \A i \in 1..Len(get_sample_patterns) :
           ~ContainsIgnoringCase(get_sample_patterns[i].name, request.pattern_name)
    => /\ response.status = 404
       /\ response.body.detail = "Pattern '" \o request.pattern_name \o "' not found"
       /\ selected = None

\* C10 witness: the name "Invalid Pattern" was answered with 404.
C10_Witness ==
    /\ request.handler = "generate_detailed_code"
    /\ request.pattern_name = "Invalid Pattern"
    /\ response.status = 404


(***************************************************************************)
(* POST /ai/analyze.                                                       *)
(***************************************************************************)
\* C11: POST /ai/analyze answers 404 exactly when pattern_id is the id of no
\* catalog pattern; otherwise 400 exactly when analysis_type is none of
\* visual, mathematical, logical, implementation; otherwise 200 with the
\* requested analysis_type echoed.  An unknown pattern asked for with an
\* invalid type is answered 404.
C11_AnalyzeChecksPatternThenType ==
    request.handler = "analyze_pattern" =>
        LET known == request.pattern_id \in CatalogIds
            valid == request.analysis_type \in
                         {"visual", "mathematical", "logical", "implementation"}
        IN  /\ response.status = 404 <=> ~known
            /\ known => (response.status = 400 <=> ~valid)
            /\ known /\ valid =>
                   /\ response.status = 200
                   /\ response.body.analysis_type = request.analysis_type

\* an unknown pattern asked for with an invalid analysis type was answered 404
C11_Witness ==
    /\ request.handler = "analyze_pattern"
    /\ request.pattern_id \notin CatalogIds
    /\ request.analysis_type = "invalid"
    /\ response.status = 404
    /\ response.body.detail = "Pattern not found"


(***************************************************************************)
(* POST /execute-code of main.py.                                          *)
(***************************************************************************)
\* C12: POST /execute-code whose body has no `code` field, or an empty one,
\* is answered 400 "No code provided"; the body of the answer is the error
\* detail alone, with no output, language, execution_time or status of a run.
C12_NoCodeIsBadRequest ==
    (request.handler = "execute_code"
         /\ ("code" \in DOMAIN request.body => request.body.code = "")) =>
        /\ response.status = 400
        /\ response.body = [detail |-> "No code provided"]

\* a body without a `code` field was answered 400
C12_Witness ==
    /\ request.handler = "execute_code"
    /\ "code" \notin DOMAIN request.body
    /\ response.status = 400
    /\ response.body.detail = "No code provided"


(***************************************************************************)
(* POST /ai/generate-detailed-code without a pattern name.                 *)
(***************************************************************************)
\* C13: POST /ai/generate-detailed-code whose body has no pattern_name is
\* answered with one of the error statuses 400, 404, 405, 500; it is not
\* answered 200 with a catalog pattern selected.
C13_MissingNameIsAnError ==
    (request.handler = "generate_detailed_code"
         /\ "pattern_name" \notin DOMAIN request.body) =>
        /\ response.status \in {400, 404, 405, 500}
        /\ ~(selected # None /\ response.status = 200)

\* the body {"invalid": "data"} was answered with an error status
C13_Witness ==
    /\ request.handler = "generate_detailed_code"
    /\ request.body = [invalid |-> "data"]
    /\ request.pattern_name = ""
    /\ response.status = 500


(***************************************************************************)
(* The template generator.                                                 *)
(***************************************************************************)
\* the (pattern id, language) pairs that have a template written out
HardcodedPairs ==
    {<<1, "python">>, <<2, "python">>, <<31, "python">>, <<2, "javascript">>}

\* C14: generate_code_template(P, L) returns a written-out template, not the
\* stub, for the hardcoded (pattern, language) pairs, and the one of pattern 2
\* in python contains "for i in range(1, n + 1)"; for every other pair, any
\* unknown language included, it returns a stub that contains P.name, a TODO
\* marker and "Formula: " followed by P.formula.
C14_TemplateOrStub ==
    (request.handler = "generate_code" /\ selected # None) =>
        /\ response.status = 200
        /\ LET generated_code == response.body.generated_code
           IN  IF <<selected.id, request.language>> \in HardcodedPairs
               THEN /\ ~Contains(generated_code, "TODO")
                    /\ (selected.id = 2 /\ request.language = "python") =>
                           Contains(generated_code, "for i in range(1, n + 1)")
               ELSE /\ Contains(generated_code, selected.name)
                    /\ Contains(generated_code, "TODO")
                    /\ Contains(generated_code, "Formula: " \o selected.formula)

\* a template was asked for in a language the generator does not know, for
\* the pattern whose python template is written out, and the stub came back
C14_Witness ==
    /\ request.handler = "generate_code"
    /\ request.language = "ruby"
    /\ selected # None
    /\ selected.id = 2
    /\ response.status = 200
    /\ Contains(response.body.generated_code, "TODO")


(***************************************************************************)
(* The subprocess runner: POST /execute-code of enhanced_main.py.          *)
(*                                                                         *)
(* The handler has no await, so one server process runs it from start to   *)
(* end; two requests overlap when two server processes (workers) serve the *)
(* application on one machine.  A worker takes one system call or one      *)
(* subprocess per step.  What the interpreters, compilers and compiled     *)
(* programs do with a source text is given by a table of programs; any     *)
(* subprocess can also run into the 10-second timeout.                     *)
(***************************************************************************)
\* tempfile.gettempdir()
TempDir == "/tmp"

\* the directories the server may have been started in: one of its own, or
\* the directory of the temporary files
WorkingDirs == {"/app", TempDir}

\* a program: the language and text of a source, what its compiler makes of
\* it (build: "none" for an interpreted language, "ok", or "error" with the
\* compiler's stderr), the class it declares (java), and what it does when
\* run ("exits" with returncode, stdout and stderr, "hangs", or "raises":
\* subprocess.run raises an exception other than TimeoutExpired, whose text
\* is kept in stderr)
Program(language, code, build, class_name, behaviour, returncode, stdout, stderr) ==
    [language |-> language, code |-> code, build |-> build,
     class_name |-> class_name, behaviour |-> behaviour,
     returncode |-> returncode, stdout |-> stdout, stderr |-> stderr]

\* str(e) of the UnicodeDecodeError that text=True raises on the byte 0xff
DecodeErrorMessage ==
    "'utf-8' codec can't decode byte 0xff in position 0: invalid start byte"

Programs == {
    Program("python", "print('A')", "none", "", "exits", 0, "A\n", ""),
    Program("python", "import sys\nsys.exit('bye')", "none", "", "exits",
            1, "", "bye\n"),
    Program("python", "import sys\nsys.stdout.buffer.write(b'\\xff')",
            "none", "", "raises", 0, "", DecodeErrorMessage),
    Program("javascript", "console.log('A')", "none", "", "exits", 0, "A\n", ""),
    Program("java",
            "class Main { public static void main(String[] a) { System.out.println(\"A\"); } }",
            "ok", "Main", "exits", 0, "A\n", ""),
    Program("java",
            "class Main { public static void main(String[] a) { System.out.println(\"B\"); } }",
            "ok", "Main", "exits", 0, "B\n", ""),
    Program("java",
            "class Hello { public static void main(String[] a) { System.out.println(\"H\"); } }",
            "ok", "Hello", "exits", 0, "H\n", ""),
    Program("java", "class Main {", "error", "", "exits", 1, "",
            "error: reached end of file while parsing\n"),
    Program("cpp",
            "#include <cstdio>\nint main() { std::puts(\"A\"); return 0; }",
            "ok", "", "exits", 0, "A\n", ""),
    Program("cpp", "int main() { for (;;) {} }", "ok", "", "hangs", 0, "", ""),
    Program("cpp", "int main() {", "error", "", "exits", 1, "",
            "error: expected '}' at end of input\n"),
    Program("ruby", "puts 'A'", "none", "", "exits", 0, "A\n", "")
}

\* the program a source text is
ProgramOf(code) == CHOOSE p \in Programs : p.code = code

\* what is on disk at a path: a source text, or what a compiler made of one
Source(code) == [kind |-> "source", code |-> code]
Compiled(code) == [kind |-> "compiled", code |-> code]

Exists(fs, path) == \E f \in fs : f.path = path
FileAt(fs, path) == CHOOSE f \in fs : f.path = path

\* open(path, 'w') ... write ... close by worker w, or a compiler's output
WriteFile(fs, path, content, w) ==
    {f \in fs : f.path # path}
        \cup {[path |-> path, content |-> content, writer |-> w]}

\* os.unlink(path); the caller swallows the error of a missing file
Unlink(fs, path) == {f \in fs : f.path # path}

\* the worker other than w wrote the file at path
Foreign(fs, path, w) == Exists(fs, path) /\ FileAt(fs, path).writer # w

\* tempfile.NamedTemporaryFile(suffix=f'.{language}', delete=False).name:
\* a name in the temporary directory that no other file has
TempFileName(w, language) == TempDir \o "/tmp" \o w \o "." \o language

\* the class file javac writes for a source: next to the source
ClassFileOf(temp_file, class_name) == TempDir \o "/" \o class_name \o ".class"

\* the response dict, answered with status 200
ExecutionResponse(output, error) ==
    [status |-> 200,
     body |-> [output |-> output, error |-> error, execution_time |-> "0ms"]]

\* subprocess.CompletedProcess
CompletedProcess(returncode, stdout, stderr) ==
    [returncode |-> returncode, stdout |-> stdout, stderr |-> stderr]

\* what `java Main` does in directory dir: it runs the class of Main.class
\* there, or fails to find one
JavaMain(fs, dir) ==
    IF Exists(fs, dir \o "/Main.class")
    THEN ProgramOf(FileAt(fs, dir \o "/Main.class").content.code)
    ELSE Program("java", "", "ok", "", "exits", 1, "",
                 "Error: Could not find or load main class Main\n"
                     \o "Caused by: java.lang.ClassNotFoundException: Main\n")

\* the languages with an interpreter, and those with a compiler
Interpreted == {"python", "javascript"}
CompiledLanguages == {"java", "cpp"}

\* the command a language is interpreted, compiled or run with
InterpreterOf(language) == IF language = "python" THEN "python" ELSE "node"
CompilerOf(language) == IF language = "java" THEN "javac" ELSE "g++"

\* the file a compiler writes for worker w's source, and the file the
\* handler runs and unlinks as the compiled program
ProductWritten(proc) ==
    IF proc.language = "java"
    THEN ClassFileOf(proc.temp_file, ProgramOf(proc.code).class_name)
    ELSE proc.temp_file \o ".out"

ProductUsed(proc, dir) ==
    IF proc.language = "java" THEN dir \o "/Main.class"
    ELSE proc.temp_file \o ".out"

TimedOutMessage == "Code execution timed out (10 seconds)"

\* the handler's locals once subprocess.run of a program has returned or
\* raised: slow tells that it ran into the timeout
AfterRun(proc, command, p, slow) ==
    LET ran == [proc EXCEPT !.ran = Append(@, command), !.pc = "unlink_source"]
    IN  IF slow \/ p.behaviour = "hangs"
        THEN [ran EXCEPT !.outcome = "timeout", !.timed_out = TRUE]
        ELSE IF p.behaviour = "raises"
        THEN [ran EXCEPT !.outcome = "failed", !.message = p.stderr]
        ELSE [ran EXCEPT !.outcome = "result",
                         !.result = CompletedProcess(p.returncode, p.stdout,
                                                     p.stderr)]

\* the dict the handler returns after its clean-up
ReturnOf(proc) ==
    IF proc.outcome = "timeout"
    THEN ExecutionResponse("", TimedOutMessage)
    ELSE IF proc.outcome = "failed"
    THEN ExecutionResponse("", "Execution failed: " \o proc.message)
    ELSE ExecutionResponse(proc.result.stdout,
                           IF proc.result.returncode # 0
                           THEN proc.result.stderr ELSE "")

\* lines 673-675 and the else of line 740: the code is written to a new
\* temporary file; a language with no branch is answered at once
Receive(w, language, code) ==
    /\ procs[w].pc = "idle"
    /\ LET temp_file == TempFileName(w, language)
       IN  /\ files' = WriteFile(files, temp_file, Source(code), w)
           /\ procs' = [procs EXCEPT ![w] =
                  [pc |-> IF language \in Interpreted THEN "interpret"
                          ELSE IF language \in CompiledLanguages THEN "compile"
                          ELSE "done",
                   language |-> language, code |-> code,
                   temp_file |-> temp_file, ran |-> <<>>,
                   compiled |-> "none", timed_out |-> FALSE,
                   outcome |-> "none",
                   result |-> CompletedProcess(0, "", ""), message |-> "",
                   foreign |-> {},
                   response |->
                       IF language \in Interpreted \cup CompiledLanguages
                       THEN NoResponse
                       ELSE ExecutionResponse("Unsupported language: "
                                                  \o language,
                                              "Unsupported language")]]
    /\ UNCHANGED <<serviceVars, hostedVars, cwd>>

\* lines 679-694: python or node runs the temporary file
RunInterpreter(w, slow) ==
    /\ procs[w].pc = "interpret"
    /\ LET proc == procs[w]
           p == ProgramOf(FileAt(files, proc.temp_file).content.code)
       IN  procs' = [procs EXCEPT ![w] =
               AfterRun(proc, InterpreterOf(proc.language), p, slow)]
    /\ UNCHANGED <<serviceVars, hostedVars, cwd, files>>

\* the step without its look at the compiler's exit code
Compile_ExitCodeIgnored(w, slow, wrote) ==
    /\ procs[w].pc = "compile"
    /\ LET proc == procs[w]
           p == ProgramOf(FileAt(files, proc.temp_file).content.code)
           compiler == CompilerOf(proc.language)
           product == ProductWritten(proc)
           written == p.build = "ok" /\ (~slow \/ wrote)
           after == [proc EXCEPT !.ran = Append(@, compiler),
                                 !.foreign = IF written /\ Foreign(files, product, w)
                                             THEN @ \cup {"overwritten"} ELSE @]
       IN  /\ files' = IF written
                       THEN WriteFile(files, product, Compiled(p.code), w)
                       ELSE files
           /\ procs' = [procs EXCEPT ![w] =
                  IF slow
                  THEN [after EXCEPT !.pc = "unlink_source",
                                     !.outcome = "timeout", !.timed_out = TRUE]
                  ELSE [after EXCEPT !.pc = "run", !.compiled = p.build]]
    /\ UNCHANGED <<serviceVars, hostedVars, cwd>>

\* lines 695-709 and 718-731: javac or g++ compiles the temporary file; a
\* compiler that ran into the timeout may or may not have written its output
Compile(w, slow, wrote) ==
    /\ procs[w].pc = "compile"
    /\ LET proc == procs[w]
           p == ProgramOf(FileAt(files, proc.temp_file).content.code)
           compiler == CompilerOf(proc.language)
           product == ProductWritten(proc)
           written == p.build = "ok" /\ (~slow \/ wrote)
           after == [proc EXCEPT !.ran = Append(@, compiler),
                                 !.foreign = IF written /\ Foreign(files, product, w)
                                             THEN @ \cup {"overwritten"} ELSE @]
       IN  /\ files' = IF written
                       THEN WriteFile(files, product, Compiled(p.code), w)
                       ELSE files
           /\ procs' = [procs EXCEPT ![w] =
                  IF slow
                  THEN [after EXCEPT !.pc = "unlink_source",
                                     !.outcome = "timeout", !.timed_out = TRUE]
                  ELSE IF p.build = "error"
                  THEN [after EXCEPT !.pc = "done", !.compiled = "error",
                                     !.response =
                                         ExecutionResponse(p.stderr,
                                                           "Compilation failed")]
                  ELSE [after EXCEPT !.pc = "run", !.compiled = "ok"]]
    /\ UNCHANGED <<serviceVars, hostedVars, cwd>>

\* lines 711-717 and 733-739: `java Main` in the working directory, or the
\* compiled file itself
RunCompiled(w, slow) ==
    /\ procs[w].pc = "run"
    /\ LET proc == procs[w]
           program == ProductUsed(proc, cwd)
           p == IF proc.language = "java" THEN JavaMain(files, cwd)
                ELSE IF Exists(files, program)
                THEN ProgramOf(FileAt(files, program).content.code)
                ELSE Program("cpp", "", "ok", "", "raises", 0, "",
                             "[Errno 2] No such file or directory: '"
                                 \o program \o "'")
           command == IF proc.language = "java" THEN "java" ELSE program
           after == AfterRun(proc, command, p, slow)
       IN  procs' = [procs EXCEPT ![w] =
               [after EXCEPT !.foreign = IF Foreign(files, program, w)
                                         THEN @ \cup {"read"} ELSE @]]
    /\ UNCHANGED <<serviceVars, hostedVars, cwd, files>>

\* os.unlink(temp_file) of a clean-up; for python and node the return
\* follows
UnlinkSource(w) ==
    /\ procs[w].pc = "unlink_source"
    /\ files' = Unlink(files, procs[w].temp_file)
    /\ LET proc == procs[w]
       IN  procs' = [procs EXCEPT ![w] =
               IF proc.language \in CompiledLanguages
               THEN [proc EXCEPT !.pc = "unlink_product"]
               ELSE [proc EXCEPT !.pc = "done", !.response = ReturnOf(proc)]]
    /\ UNCHANGED <<serviceVars, hostedVars, cwd>>

\* os.unlink("Main.class") or os.unlink(temp_file + ".out") of a clean-up,
\* with the error of a missing file swallowed, and the return
UnlinkProduct(w) ==
    /\ procs[w].pc = "unlink_product"
    /\ LET proc == procs[w]
           program == ProductUsed(proc, cwd)
       IN  /\ files' = Unlink(files, program)
           /\ procs' = [procs EXCEPT ![w] =
                  [proc EXCEPT !.pc = "done", !.response = ReturnOf(proc),
                               !.foreign = IF Foreign(files, program, w)
                                           THEN @ \cup {"deleted"} ELSE @]]
    /\ UNCHANGED <<serviceVars, hostedVars, cwd>>

\* the server was started in some directory; no request has arrived
InitRunner ==
    /\ request = NoRequest
    /\ response = NoResponse
    /\ selected = None
    /\ ai_analyzer = NotLoaded
    /\ db_manager = NotConnected
    /\ tables = NoRows
    /\ cwd \in WorkingDirs
    /\ files = {}
    /\ procs = NoProcs

OnReceive == \E w \in Workers, p \in Programs : Receive(w, p.language, p.code)
OnRunInterpreter == \E w \in Workers, slow \in BOOLEAN : RunInterpreter(w, slow)
OnCompile == \E w \in Workers, slow \in BOOLEAN, wrote \in BOOLEAN : Compile(w, slow, wrote)
OnRunCompiled == \E w \in Workers, slow \in BOOLEAN : RunCompiled(w, slow)
OnUnlinkSource == \E w \in Workers : UnlinkSource(w)
OnUnlinkProduct == \E w \in Workers : UnlinkProduct(w)

NextRunner ==
    \/ OnReceive
    \/ OnRunInterpreter
    \/ OnCompile
    \/ OnRunCompiled
    \/ OnUnlinkSource
    \/ OnUnlinkProduct

SpecRunner == InitRunner /\ [][NextRunner]_vars

\* the worker's request has been answered
Answered(w) == procs[w].pc = "done"

AloneResponses(language, code, dir) ==
    LET p == ProgramOf(code)
        timeout == ExecutionResponse("", "Code execution timed out (10 seconds)")
        RunOf(q) ==
            IF q.behaviour = "hangs" THEN {timeout}
            ELSE IF q.behaviour = "raises"
            THEN {timeout, ExecutionResponse("", "Execution failed: " \o q.stderr)}
            ELSE {timeout,
                  ExecutionResponse(q.stdout,
                                    IF q.returncode # 0 THEN q.stderr ELSE "")}
        own == {[path |-> TempDir \o "/" \o p.class_name \o ".class",
                 content |-> Compiled(code), writer |-> "self"]}
    IN  IF language \in {"python", "javascript"} THEN RunOf(p)
        ELSE IF language \in {"java", "cpp"}
        THEN IF p.build = "error"
             THEN {timeout, ExecutionResponse(p.stderr, "Compilation failed")}
             ELSE IF language = "java" THEN RunOf(JavaMain(own, dir))
             ELSE RunOf(p)
        ELSE {ExecutionResponse("Unsupported language: " \o language,
                                "Unsupported language")}

Pipeline(task) == [task |-> task, model |-> "microsoft/DialoGPT-medium"]

\* ai_analyzer after a _load_models that raised nowhere
Loaded ==
    [code_classifier |-> Pipeline("text-classification"),
     code_generator |-> Pipeline("text-generation")]

\* lines * 0.1 + loops * 0.2 + conditions * 0.15 as the float sum comes out
\* above the exact one: the counts, among less than 15 lines, 8 loops and 8
\* conditions, for which the sum is 0.7000000000000001 and not 0.7
RoundedUp == {<<1, 3, 0>>, <<3, 2, 0>>, <<7, 0, 0>>}

\* the heuristic without its min(1.0, ...)
fallback_complexity_analysis_Unclipped(code) ==
    LET lines == Count(code, "\n") + 1
        loops == Count(code, "for") + Count(code, "while")
        conditions == Count(code, "if") + Count(code, "else")
        complexity_score == lines * 10 + loops * 20 + conditions * 15
        above70 == complexity_score > 70
                       \/ <<lines, loops, conditions>> \in RoundedUp
    IN  [complexity_score |-> complexity_score,
         complexity_level |-> IF above70 THEN "high"
                              ELSE IF complexity_score > 40 THEN "medium"
                              ELSE "low",
         suggestions |-> <<"Keep functions small and focused",
                           "Use meaningful variable names",
                           "Add comments for complex logic">>,
         ai_confidence |-> 0]

\* HuggingFaceCodeAnalyzer._fallback_complexity_analysis
fallback_complexity_analysis(code) ==
    LET lines == Count(code, "\n") + 1
        loops == Count(code, "for") + Count(code, "while")
        conditions == Count(code, "if") + Count(code, "else")
        complexity_score == Min(100, lines * 10 + loops * 20 + conditions * 15)
        above70 == complexity_score > 70
                       \/ <<lines, loops, conditions>> \in RoundedUp
    IN  [complexity_score |-> complexity_score,
         complexity_level |-> IF above70 THEN "high"
                              ELSE IF complexity_score > 40 THEN "medium"
                              ELSE "low",
         suggestions |-> <<"Keep functions small and focused",
                           "Use meaningful variable names",
                           "Add comments for complex logic">>,
         ai_confidence |-> 0]

\* HuggingFaceCodeAnalyzer._fallback_code_explanation
fallback_code_explanation(code, pattern_name) ==
    "This " \o pattern_name \o " pattern uses nested loops to create a visual"
        \o " pattern. The outer loop controls the rows, while the inner loop"
        \o " controls the columns. Each iteration prints characters to form"
        \o " the desired shape."

\* HuggingFaceCodeAnalyzer._fallback_improvement_suggestions
fallback_improvement_suggestions(code) ==
    <<"Add comments to explain the logic",
      "Use descriptive variable names",
      "Consider breaking down complex functions",
      "Add error handling where appropriate">>

\* HuggingFaceCodeAnalyzer.analyze_code_complexity; classifier_call tells
\* whether self.code_classifier(code) "returns" or "raises"
analyze_code_complexity(analyzer, code, classifier_call) ==
    IF analyzer.code_classifier = None
    THEN fallback_complexity_analysis(code)
    ELSE IF classifier_call = "returns"
    THEN [complexity_score |-> 70,
          complexity_level |-> "medium",
          suggestions |->
              <<"Consider breaking down this function into smaller parts",
                "Add more descriptive variable names",
                "Consider using list comprehensions for better readability">>,
          ai_confidence |-> 85]
    ELSE fallback_complexity_analysis(code)

\* HuggingFaceCodeAnalyzer.generate_code_explanation; generator_call is
\* "raises", or the text the generator adds to the prompt
generate_code_explanation(analyzer, code, pattern_name, generator_call) ==
    IF analyzer.code_generator = None
    THEN fallback_code_explanation(code, pattern_name)
    ELSE IF generator_call # "raises"
    THEN "Explain this " \o pattern_name \o " code in simple terms:\n" \o code
             \o "\nExplanation:" \o generator_call
    ELSE fallback_code_explanation(code, pattern_name)

\* HuggingFaceCodeAnalyzer.suggest_improvements
suggest_improvements(analyzer, code) ==
    IF analyzer.code_classifier = None
    THEN fallback_improvement_suggestions(code)
    ELSE <<"Consider adding type hints for better code clarity",
           "Use more descriptive variable names",
           "Add docstrings to explain the function's purpose",
           "Consider using constants for magic numbers">>

get_ai_code_analysis(analyzer, code, pattern_name, classifier_call, generator_call) ==
    [complexity_analysis |->
         analyze_code_complexity(analyzer, code, classifier_call),
     explanation |->
         generate_code_explanation(analyzer, code, pattern_name, generator_call),
     improvement_suggestions |-> suggest_improvements(analyzer, code),
     ai_powered |-> analyzer.code_classifier # None]

\* a call of get_ai_code_analysis(code, pattern_name)
GetAiCodeAnalysis(code, pattern_name, classifier_call, generator_call) ==
    /\ request = NoRequest
    /\ request' = [handler |-> "get_ai_code_analysis", code |-> code,
                   pattern_name |-> pattern_name,
                   classifier_call |-> classifier_call,
                   generator_call |-> generator_call]
    /\ response' = [status |-> 200,
                    body |-> get_ai_code_analysis(ai_analyzer, code,
                                                  pattern_name, classifier_call,
                                                  generator_call)]
    /\ selected' = None

\* the pattern names and the outcomes of the pipeline calls that are tried
AnalysisNames == {"Square Pattern (Solid)", "Hollow Square", ""}
ClassifierCalls == {"returns", "raises"}
GeneratorCalls == {"raises", "", " It prints a square of stars."}

OnGetAiCodeAnalysis ==
    /\ request = NoRequest
    /\ \E code \in CodeInputs("python"), pattern_name \in AnalysisNames,
          classifier_call \in ClassifierCalls,
          generator_call \in GeneratorCalls :
           GetAiCodeAnalysis(code, pattern_name, classifier_call, generator_call)
    /\ UNCHANGED <<hostedVars, sandboxVars>>

\* ai_analyzer = HuggingFaceCodeAnalyzer(): the models were loaded or not
InitAnalyzer ==
    /\ request = NoRequest
    /\ response = NoResponse
    /\ selected = None
    /\ ai_analyzer \in {NotLoaded, Loaded}
    /\ db_manager = NotConnected
    /\ tables = NoRows
    /\ cwd = "/app"
    /\ files = {}
    /\ procs = NoProcs

NextAnalyzer ==
    \/ OnGetAiCodeAnalysis
    \/ Reply

SpecAnalyzer == InitAnalyzer /\ [][NextAnalyzer]_vars

\* C17: whether the hosted model is not loaded, loaded with calls that
\* return, or loaded with calls that raise, get_ai_code_analysis returns a
\* result with complexity_analysis, explanation and improvement_suggestions;
\* when the classifier is absent or its call raises, the complexity analysis
\* is the fallback heuristic, with ai_confidence 0.0 and a complexity_score of
\* at most 1.0.
C17_AnalysisDegradesToFallback ==
    request.handler = "get_ai_code_analysis" =>
        /\ response.status = 200
        /\ {"complexity_analysis", "explanation", "improvement_suggestions"}
               \subseteq DOMAIN response.body
        /\ (ai_analyzer.code_classifier = None
                \/ request.classifier_call = "raises") =>
               LET complexity_analysis == response.body.complexity_analysis
               IN  /\ complexity_analysis.ai_confidence = 0
                   /\ complexity_analysis.complexity_score <= 100
                   /\ complexity_analysis.suggestions[1]
                          = "Keep functions small and focused"

\* the classifier was loaded, its call raised, and the fallback heuristic
\* answered for a text whose unclipped score is above 1.0
C17_Witness ==
    /\ request.handler = "get_ai_code_analysis"
    /\ ai_analyzer.code_classifier # None
    /\ request.classifier_call = "raises"
    /\ request.code = SquareLoops \o SquareLoops
    /\ response.body.complexity_analysis.ai_confidence = 0
    /\ response.body.complexity_analysis.complexity_score = 100

(***************************************************************************)
(* The DatabaseManager of database.py.                                     *)
(*                                                                         *)
(* _initialize_supabase sets the client or, when create_client raises,     *)
(* None.  The hosted database is its three tables; a row is stamped with   *)
(* the number of rows stored before it, which stands for                   *)
(* datetime.utcnow().isoformat().  Whether a call to the database          *)
(* "completes" or "raises" is an input of the operation.  An operation     *)
(* gives back what it returns and the tables as it leaves them.            *)
(***************************************************************************)
\* the database holds at most MaxRows rows
MaxRows == 2

\* create_client(supabase_url, supabase_key)
Client == [supabase_url |-> "https://cmmxtopgavawhtbgkczw.supabase.co"]

\* db_manager after an _initialize_supabase that did not raise
Connected == [supabase |-> Client]

\* a Python {} or []
Empty == <<>>

RowCount(db) ==
    Len(db.user_progress) + Len(db.pattern_attempts) + Len(db.ai_analyses)

\* datetime.utcnow().isoformat(), as a logical time
UtcNow(db) == RowCount(db) + 1

\* .order(column, desc=True) over rows stored in the order of the column
Descending(rows) == [i \in 1..Len(rows) |-> rows[Len(rows) + 1 - i]]

\* what an operation gives back
Returned(value, db) == [returned |-> value, tables |-> db]

\* the operation that answers True whatever the insert did
save_user_progress_AlwaysTrue(manager, db, user_id, pattern_id, progress_data, db_call) ==
    IF manager.supabase = None
    THEN Returned(TRUE, db)
    ELSE LET data == [user_id |-> user_id,
                      pattern_id |-> pattern_id,
                      progress_percentage |-> Get(progress_data, "progress", 0),
                      time_spent |-> Get(progress_data, "time_spent", 0),
                      attempts |-> Get(progress_data, "attempts", 1),
                      completed |-> Get(progress_data, "completed", FALSE),
                      last_attempt_at |-> UtcNow(db),
                      code_submitted |-> Get(progress_data, "code", ""),
                      ai_feedback |-> Get(progress_data, "ai_feedback", Empty)]
         IN  IF db_call = "completes"
             THEN Returned(TRUE, [db EXCEPT !.user_progress = Append(@, data)])
             ELSE Returned(TRUE, db)

\* DatabaseManager.save_user_progress
save_user_progress(manager, db, user_id, pattern_id, progress_data, db_call) ==
    IF manager.supabase = None
    THEN Returned(FALSE, db)
    ELSE LET data == [user_id |-> user_id,
                      pattern_id |-> pattern_id,
                      progress_percentage |-> Get(progress_data, "progress", 0),
                      time_spent |-> Get(progress_data, "time_spent", 0),
                      attempts |-> Get(progress_data, "attempts", 1),
                      completed |-> Get(progress_data, "completed", FALSE),
                      last_attempt_at |-> UtcNow(db),
                      code_submitted |-> Get(progress_data, "code", ""),
                      ai_feedback |-> Get(progress_data, "ai_feedback", Empty)]
         IN  IF db_call = "completes"
             THEN Returned(TRUE, [db EXCEPT !.user_progress = Append(@, data)])
             ELSE Returned(FALSE, db)

\* DatabaseManager.get_user_progress; pattern_id is an Optional[int]
get_user_progress(manager, db, user_id, pattern_id, db_call) ==
    IF manager.supabase = None
    THEN Returned(Empty, db)
    ELSE LET OfUser(row) == row.user_id = user_id
             \* `if pattern_id:` is false for None and for 0
             OfPattern(row) ==
                 (pattern_id # <<>> /\ pattern_id[1] # 0) =>
                     row.pattern_id = pattern_id[1]
             query == SelectSeq(SelectSeq(db.user_progress, OfUser), OfPattern)
         IN  IF db_call = "completes"
             THEN Returned(Descending(query), db)
             ELSE Returned(Empty, db)

\* DatabaseManager.save_pattern_attempt
save_pattern_attempt(manager, db, user_id, pattern_id, code, success, db_call) ==
    IF manager.supabase = None
    THEN Returned(FALSE, db)
    ELSE LET data == [user_id |-> user_id,
                      pattern_id |-> pattern_id,
                      code_submitted |-> code,
                      success |-> success,
                      attempted_at |-> UtcNow(db),
                      ai_analysis |-> Empty]
         IN  IF db_call = "completes"
             THEN Returned(TRUE, [db EXCEPT !.pattern_attempts = Append(@, data)])
             ELSE Returned(FALSE, db)

\* the statistics of a pattern nobody has attempted, and of a failed query
NoStatistics == [total_attempts |-> 0, success_rate |-> 0, average_time |-> 0]

\* DatabaseManager.get_pattern_statistics
get_pattern_statistics(manager, db, pattern_id, db_call) ==
    IF manager.supabase = None
    THEN Returned(NoStatistics, db)
    ELSE LET OfPattern(row) == row.pattern_id = pattern_id
             Successful(row) == row.success
             attempts == SelectSeq(db.pattern_attempts, OfPattern)
             successful_attempts == Len(SelectSeq(attempts, Successful))
         IN  IF db_call # "completes" \/ attempts = <<>>
             THEN Returned(NoStatistics, db)
             ELSE Returned([total_attempts |-> Len(attempts),
                            success_rate |->
                                Quotient(successful_attempts, Len(attempts)),
                            average_time |-> 0,
                            difficulty_trend |->
                                \* successful_attempts > len(attempts) * 0.7
                                IF 10 * successful_attempts > 7 * Len(attempts)
                                THEN "increasing" ELSE "challenging"],
                           db)

\* DatabaseManager.get_leaderboard: no call to the database is made
get_leaderboard(manager, db, limit) ==
    IF manager.supabase = None
    THEN Returned(Empty, db)
    ELSE Returned(<<[user_id |-> "user1", patterns_completed |-> 15,
                     total_time |-> 1200],
                    [user_id |-> "user2", patterns_completed |-> 12,
                     total_time |-> 980],
                    [user_id |-> "user3", patterns_completed |-> 10,
                     total_time |-> 850]>>,
                  db)

\* DatabaseManager.save_ai_analysis
save_ai_analysis(manager, db, user_id, pattern_id, analysis_data, db_call) ==
    IF manager.supabase = None
    THEN Returned(FALSE, db)
    ELSE LET data == [user_id |-> user_id,
                      pattern_id |-> pattern_id,
                      analysis_type |-> Get(analysis_data, "type", "general"),
                      complexity_score |->
                          Get(analysis_data, "complexity_score", 0),
                      suggestions |-> Get(analysis_data, "suggestions", Empty),
                      explanation |-> Get(analysis_data, "explanation", ""),
                      analyzed_at |-> UtcNow(db)]
         IN  IF db_call = "completes"
             THEN Returned(TRUE, [db EXCEPT !.ai_analyses = Append(@, data)])
             ELSE Returned(FALSE, db)

\* A caller awaits one operation of db_manager; the operation returns.
DbReturn(call, result) ==
    /\ request = NoRequest
    /\ request' = call
    /\ response' = [status |-> 200, body |-> result.returned]
    /\ tables' = result.tables
    /\ selected' = None
    /\ UNCHANGED <<ai_analyzer, db_manager, sandboxVars>>

\* the users, pattern ids, payloads and database outcomes that are tried
UserIds == {"u1", "u2"}
DbPatternIds == {0, 1}
ProgressData == {[progress |-> 50], [progress |-> 100, completed |-> TRUE, code |-> "print('*')\n"]}
AnalysisData == {[type |-> "complexity", complexity_score |-> 30], [explanation |-> "nested loops"]}
DbCalls == {"completes", "raises"}
LeaderboardLimits == {10, 0}

\* an insert that completes needs room in the database
HasRoom(db_call) == db_call = "completes" => RowCount(tables) < MaxRows

OnSaveUserProgress ==
    /\ request = NoRequest
    /\ \E user_id \in UserIds, pattern_id \in DbPatternIds,
          progress_data \in ProgressData, db_call \in DbCalls :
           /\ HasRoom(db_call)
           /\ DbReturn([handler |-> "save_user_progress", user_id |-> user_id,
                        pattern_id |-> pattern_id,
                        progress_data |-> progress_data, db_call |-> db_call],
                       save_user_progress(db_manager, tables, user_id,
                                          pattern_id, progress_data, db_call))

OnGetUserProgress ==
    /\ request = NoRequest
    /\ \E user_id \in UserIds,
          pattern_id \in {<<>>} \cup {<<p>> : p \in DbPatternIds},
          db_call \in DbCalls :
           DbReturn([handler |-> "get_user_progress", user_id |-> user_id,
                     pattern_id |-> pattern_id, db_call |-> db_call],
                    get_user_progress(db_manager, tables, user_id, pattern_id,
                                      db_call))

OnSavePatternAttempt ==
    /\ request = NoRequest
    /\ \E pattern_id \in DbPatternIds, success \in BOOLEAN,
          db_call \in DbCalls :
           /\ HasRoom(db_call)
           /\ DbReturn([handler |-> "save_pattern_attempt", user_id |-> "u1",
                        pattern_id |-> pattern_id, code |-> "print('*')\n",
                        success |-> success, db_call |-> db_call],
                       save_pattern_attempt(db_manager, tables, "u1",
                                            pattern_id, "print('*')\n",
                                            success, db_call))

OnGetPatternStatistics ==
    /\ request = NoRequest
    /\ \E pattern_id \in DbPatternIds, db_call \in DbCalls :
           DbReturn([handler |-> "get_pattern_statistics",
                     pattern_id |-> pattern_id, db_call |-> db_call],
                    get_pattern_statistics(db_manager, tables, pattern_id,
                                           db_call))

OnGetLeaderboard ==
    /\ request = NoRequest
    /\ \E limit \in LeaderboardLimits :
           DbReturn([handler |-> "get_leaderboard", limit |-> limit],
                    get_leaderboard(db_manager, tables, limit))

OnSaveAiAnalysis ==
    /\ request = NoRequest
    /\ \E analysis_data \in AnalysisData, db_call \in DbCalls :
           /\ HasRoom(db_call)
           /\ DbReturn([handler |-> "save_ai_analysis", user_id |-> "u1",
                        pattern_id |-> 1, analysis_data |-> analysis_data,
                        db_call |-> db_call],
                       save_ai_analysis(db_manager, tables, "u1", 1,
                                        analysis_data, db_call))

\* db_manager = DatabaseManager(): the client is there, or create_client raised
InitDB ==
    /\ request = NoRequest
    /\ response = NoResponse
    /\ selected = None
    /\ ai_analyzer = NotLoaded
    /\ db_manager \in {NotConnected, Connected}
    /\ tables = NoRows
    /\ cwd = "/app"
    /\ files = {}
    /\ procs = NoProcs

NextDB ==
    \/ OnSaveUserProgress
    \/ OnGetUserProgress
    \/ OnSavePatternAttempt
    \/ OnGetPatternStatistics
    \/ OnGetLeaderboard
    \/ OnSaveAiAnalysis
    \/ Reply

SpecDB == InitDB /\ [][NextDB]_vars

\* the client is absent or the call to the database raised
Degraded ==
    \/ db_manager.supabase = None
    \/ ("db_call" \in DOMAIN request /\ request.db_call = "raises")

\* the newest row of a table is the one the request asked to store
Stored(rows) ==
    /\ rows # <<>>
    /\ rows[Len(rows)].user_id = request.user_id
    /\ rows[Len(rows)].pattern_id = request.pattern_id
    /\ RowCount(tables) <= MaxRows

\* C18: every DatabaseManager operation returns, and with the client absent
\* or the database call raising it returns its degraded default: False from
\* save_user_progress, save_pattern_attempt and save_ai_analysis, an empty
\* list from get_user_progress and get_leaderboard, and total_attempts 0,
\* success_rate 0, average_time 0 from get_pattern_statistics; a save that
\* returns True made its insert, which completed, and the row is stored.
C18_DatabaseDegradesToDefault ==
    /\ request.handler = "save_user_progress" =>
           /\ response.status = 200
           /\ Degraded => response.body = FALSE
           /\ response.body = TRUE => ~Degraded /\ Stored(tables.user_progress)
    /\ request.handler = "save_pattern_attempt" =>
           /\ response.status = 200
           /\ Degraded => response.body = FALSE
           /\ response.body = TRUE =>
                  ~Degraded /\ Stored(tables.pattern_attempts)
    /\ request.handler = "save_ai_analysis" =>
           /\ response.status = 200
           /\ Degraded => response.body = FALSE
           /\ response.body = TRUE => ~Degraded /\ Stored(tables.ai_analyses)
    /\ request.handler = "get_user_progress" =>
           /\ response.status = 200
           /\ Degraded => response.body = <<>>
    /\ request.handler = "get_leaderboard" =>
           /\ response.status = 200
           /\ Degraded => response.body = <<>>
    /\ request.handler = "get_pattern_statistics" =>
           /\ response.status = 200
           /\ Degraded =>
                  /\ DOMAIN response.body
                         = {"total_attempts", "success_rate", "average_time"}
                  /\ response.body.total_attempts = 0
                  /\ response.body.success_rate = 0
                  /\ response.body.average_time = 0

\* with rows of the pattern stored, the client present and the query raising,
\* get_pattern_statistics returned the zeros
C18_Witness ==
    /\ request.handler = "get_pattern_statistics"
    /\ db_manager.supabase # None
    /\ request.db_call = "raises"
    /\ \E i \in 1..Len(tables.pattern_attempts) :
           tables.pattern_attempts[i].pattern_id = request.pattern_id
    /\ response.body = NoStatistics

\* C19: GET /patterns applies its optional filters: with category given only
\* patterns of that category are returned, with difficulty given only
\* patterns of that difficulty, and at most `limit` patterns are returned.
C19_FiltersAreApplied ==
    request.handler = "get_patterns" =>
        /\ response.status = 200
        /\ request.category # <<>> =>
               \A i \in 1..Len(response.body) :
                   response.body[i].category = request.category[1]
        /\ request.difficulty # <<>> =>
               \A i \in 1..Len(response.body) :
                   response.body[i].difficulty = request.difficulty[1]
        /\ Len(response.body) <= request.limit

\* text ends with tail
EndsWith(text, tail) ==
    /\ Len(tail) <= Len(text)
    /\ SubSeq(text, Len(text) - Len(tail) + 1, Len(text)) = tail

\* C20: for Python code that contains a loop keyword (for or while) and a
\* print call whose literal argument is a single '*', the simulator applies
\* the secondary heuristic: with an assignment n = <integer> in the text the
\* output ends with n lines of n '*' characters, and otherwise it ends with
\* the line "Simulated pattern output".
C20_LoopAndStarPrintApplyHeuristic ==
    (/\ Simulated
     /\ request.language = "python"
     /\ Contains(request.code, "for") \/ Contains(request.code, "while")
     /\ Contains(request.code, "print('*'")) =>
        LET n_match == NSearch(request.code)
            output == response.body.output
        IN  IF n_match = ""
            THEN EndsWith(output, "Simulated pattern output\n")
            ELSE ~ExceedsIndexSize(n_match) =>
                     EndsWith(output,
                              Repeat(Repeat("*", IntOf(n_match)) \o "\n",
                                     IntOf(n_match)))

\* the text has a loop keyword
HasLoopKeyword(code) == Contains(code, "for") \/ Contains(code, "while")

\* C21: Python code with no print call, a loop keyword (for or while) and a
\* '*' character is simulated as the single line "Simulated pattern
\* execution".
C21_LoopAndStarWithoutPrint ==
    (/\ Simulated
     /\ request.language = "python"
     /\ ~Contains(request.code, "print")
     /\ HasLoopKeyword(request.code)
     /\ Contains(request.code, "*")) =>
        response.body.output = "Simulated pattern execution\n"

\* C22: when the Python simulator extracts no literal and neither the
\* lone-'*' loop heuristic nor the no-print loop-and-'*' rule applies, the
\* output is the line "Code executed successfully"; the output is never
\* empty.
C22_OtherwiseExecutedSuccessfully ==
    Simulated /\ request.language = "python" =>
        /\ response.body.output # ""
        /\ (/\ FindAll(request.code, {"print("}) = <<>>
            /\ ~(/\ HasLoopKeyword(request.code)
                 /\ Contains(request.code, "print('*'"))
            /\ ~(/\ ~Contains(request.code, "print")
                 /\ HasLoopKeyword(request.code)
                 /\ Contains(request.code, "*"))) =>
               response.body.output = "Code executed successfully\n"

(***************************************************************************)
(* The search by name of main.py:172-176 over lists of patterns.  No name  *)
(* of the catalog is part of another, so the two phases are told apart     *)
(* only on other lists: the search is applied to lists of at most MaxTable *)
(* rows whose names are drawn from TableNames.                             *)
(***************************************************************************)
MaxTable == 3

\* a row of a list of patterns
Row(id, name) == [get_sample_patterns[1] EXCEPT !.id = id, !.name = name]

TableNames == {"Hollow Square", "Square", "hollow square", "Diamond"}

\* the lists of k rows, with ids in list order
TablesOf(k) == {[i \in 1..k |-> Row(i, names[i])] : names \in [1..k -> TableNames]}

Tables == UNION {TablesOf(k) : k \in 0..MaxTable}

Queries == {"square", "Hollow Square", "HOLLOW SQUARE", "diamond", "hollow", "x", ""}

\* next(...) of lines 172 and 176 applied to a list and a name
LookupByName(patterns, pattern_name) ==
    /\ request = NoRequest
    /\ request' = [handler |-> "lookup_by_name", patterns |-> patterns,
                   pattern_name |-> pattern_name]
    /\ selected' = FindByNameIn(patterns, pattern_name)
    /\ response' = [status |-> 200, body |-> selected']

OnLookupByName ==
    /\ request = NoRequest
    /\ \E patterns \in Tables, pattern_name \in Queries :
           LookupByName(patterns, pattern_name)
    /\ UNCHANGED <<hostedVars, sandboxVars>>

NextLookup ==
    \/ OnLookupByName
    \/ Reply

SpecLookup == Init /\ [][NextLookup]_vars

\* C23: lookup by name is a two-phase search: it returns the first row in
\* table order whose name equals the query ignoring case if there is one,
\* even when an earlier row merely contains the query; only when no row
\* matches exactly does it return the first row in table order whose name
\* contains the query ignoring case, and nothing when there is none.
C23_ExactMatchBeforePartialMatch ==
    request.handler = "lookup_by_name" =>
        LET patterns == request.patterns
            exact == {i \in 1..Len(patterns) :
                          EqualIgnoringCase(patterns[i].name,
                                            request.pattern_name)}
            part == {i \in 1..Len(patterns) :
                         ContainsIgnoringCase(patterns[i].name,
                                              request.pattern_name)}
        IN  IF exact # {}
            THEN \E i \in exact : /\ \A j \in exact : i <= j
                                  /\ selected = patterns[i]
            ELSE IF part # {}
            THEN \E i \in part : /\ \A j \in part : i <= j
                                 /\ selected = patterns[i]
            ELSE selected = None

\* the first row contains the query, the second equals it ignoring case, and
\* the second was returned
C23_Witness ==
    /\ request.handler = "lookup_by_name"
    /\ request.pattern_name = "square"
    /\ Len(request.patterns) = 2
    /\ request.patterns[1].name = "Hollow Square"
    /\ request.patterns[2].name = "Square"
    /\ selected # None
    /\ selected.id = 2

(***************************************************************************)
(* The rubric, the suggestions and the hints.                              *)
(***************************************************************************)
\* the 'produces output' check of the rubric is awarded
ProducesOutput(code) ==
    \E token \in {"print", "console.log", "System.out.print"} :
        Contains(code, token)

\* the sum of the weights, in tenths, of the rubric checks that code
\* satisfies for the expected pattern
RubricSum(code, expected) ==
    (IF Contains(code, "for") THEN 3 ELSE 0)
        + (IF expected.loops > 1 /\ Count(code, "for") >= 2 THEN 3 ELSE 0)
        + (IF ProducesOutput(code) THEN 2 ELSE 0)
        + (IF expected.conditions > 0 /\ Contains(code, "if") THEN 2 ELSE 0)

C25_SuggestionsMirrorTheRubric ==
    (FeedbackAnswered /\ request.user_code # "" /\ selected # None) =>
        LET suggestions ==
                {response.body.suggestions[i] :
                     i \in 1..Len(response.body.suggestions)}
        IN  /\ "Add print statements to display the pattern" \in suggestions
                   <=> ~ProducesOutput(request.user_code)
            /\ "Add conditional statements for special cases" \in suggestions
                   <=> (/\ selected.conditions > 0
                        /\ ~Contains(request.user_code, "if"))

\* C26: for every non-empty code and catalog pattern, whenever "for" occurs
\* in the code fewer times than expected.loops the hints include "You need
\* nested loops for this pattern", whichever other hint rules fire.
C26_FewerLoopsGiveTheNestedLoopsHint ==
    (/\ FeedbackAnswered
     /\ request.user_code # ""
     /\ selected # None
     /\ Count(request.user_code, "for") < selected.loops) =>
        \E i \in 1..Len(response.body.hints) :
            response.body.hints[i] = "You need nested loops for this pattern"

\* C27: POST /execute-code of main.py agrees with the simulator module: for
\* every non-empty code and every language the output and the status of the
\* answer are those of simulate_code_execution(code, language): python,
\* javascript and java are answered by their simulator with status
\* "success", and any other language with "Language '<language>' not
\* supported for execution".
C27_HandlerAgreesWithTheSimulator ==
    (request.handler = "execute_code"
         /\ Get(request.body, "code", "") # "") =>
        LET code == Get(request.body, "code", "")
            language == Get(request.body, "language", "python")
            simulated == simulate_code_execution(code, language)
        IN  /\ response.status = 200
            /\ response.body.output = simulated.output
            /\ response.body.status = simulated.status
            /\ response.body.status = "success"

(***************************************************************************)
(* The catalog.                                                            *)
(***************************************************************************)
\* the records of the catalog
CatalogRecords ==
    {get_sample_patterns[i] : i \in 1..Len(get_sample_patterns)}

\* the handlers of main.py that look a pattern up in the catalog
LookupHandlers ==
    {"get_pattern", "get_code_feedback", "generate_detailed_code",
     "analyze_pattern", "generate_code"}

\* C28: at start and after any sequence of requests the ids of the catalog
\* are pairwise distinct, the names are pairwise distinct, every difficulty
\* is easy, medium or hard, every loops value is at least 1, every conditions
\* value at least 0, and every rows value is the number of preview lines; no
\* handler changes a record: the pattern a handler selects or returns is a
\* record of the catalog, and GET /patterns returns the catalog.
C28_CatalogInvariants ==
    LET patterns == get_sample_patterns
    IN  /\ \A i, j \in 1..Len(patterns) :
               i # j => /\ patterns[i].id # patterns[j].id
                        /\ patterns[i].name # patterns[j].name
        /\ \A i \in 1..Len(patterns) :
               /\ patterns[i].difficulty \in {"easy", "medium", "hard"}
               /\ patterns[i].loops >= 1
               /\ patterns[i].conditions >= 0
               /\ patterns[i].rows = Len(patterns[i].preview)
        /\ (request.handler \in LookupHandlers /\ selected # None) =>
               selected \in CatalogRecords
        /\ (request.handler \in {"get_pattern"} /\ response.status = 200) =>
               response.body \in CatalogRecords
        /\ (request.handler = "generate_code" /\ response.status = 200) =>
               response.body.pattern \in CatalogRecords
        /\ request.handler = "get_patterns" => response.body = patterns

\* GET /patterns/5 returned the Isosceles Triangle, of 3 rows and 3 preview
\* lines
C28_Witness ==
    /\ request.handler = "get_pattern"
    /\ request.pattern_id = 5
    /\ response.status = 200
    /\ response.body.rows = 3
    /\ Len(response.body.preview) = 3
    /\ response.body \in CatalogRecords

(***************************************************************************)
(* enhanced_main.py: POST /ai/enhanced-analysis, which analyses the code   *)
(* with ai_analyzer and saves the analysis with db_manager.  The catalog   *)
(* of enhanced_main.py (lines 797-954) is the one of main.py.              *)
(***************************************************************************)
\* request.user_code or ""
OrEmpty(user_code) == IF user_code = <<>> THEN "" ELSE user_code[1]

enhanced_ai_analysis(pattern_id, user_code, analysis_type, classifier_call, generator_call, db_call) ==
    /\ request = NoRequest
    /\ request' = [handler |-> "enhanced_ai_analysis",
                   pattern_id |-> pattern_id, user_code |-> user_code,
                   analysis_type |-> analysis_type,
                   classifier_call |-> classifier_call,
                   generator_call |-> generator_call, db_call |-> db_call]
    /\ selected' = FindById(pattern_id)
    /\ IF selected' = None
       THEN /\ response' = HTTPException(404, "Pattern not found")
            /\ tables' = tables
       ELSE LET ai_analysis ==
                    get_ai_code_analysis(ai_analyzer, OrEmpty(user_code),
                                         selected'.name, classifier_call,
                                         generator_call)
                analysis_data ==
                    [type |-> analysis_type,
                     complexity_score |->
                         ai_analysis.complexity_analysis.complexity_score,
                     suggestions |-> ai_analysis.improvement_suggestions,
                     explanation |-> ai_analysis.explanation]
                \* the value save_ai_analysis returns is not read
                saved == save_ai_analysis(db_manager, tables, "demo_user",
                                          selected'.id, analysis_data, db_call)
            IN  /\ tables' = saved.tables
                /\ response' =
                       [status |-> 200,
                        body |-> [pattern |-> selected',
                                  ai_analysis |-> ai_analysis,
                                  database_saved |-> TRUE,
                                  model_used |->
                                      IF ai_analyzer.code_classifier # None
                                      THEN "Hugging Face" ELSE "Fallback"]]
    /\ UNCHANGED <<ai_analyzer, db_manager, sandboxVars>>

\* the requests that are tried: pattern 1, and 12 which is no pattern
EnhancedIds == {1, 12}
EnhancedCodes == {<<>>, Some(SquareLoops)}
EnhancedGeneratorCalls == {"raises", " It prints a square of stars."}

OnEnhancedAiAnalysis ==
    /\ request = NoRequest
    /\ \E pattern_id \in EnhancedIds, user_code \in EnhancedCodes,
          classifier_call \in ClassifierCalls,
          generator_call \in EnhancedGeneratorCalls, db_call \in DbCalls :
           /\ HasRoom(db_call)
           /\ enhanced_ai_analysis(pattern_id, user_code, "visual",
                                   classifier_call, generator_call, db_call)

\* the module-level ai_analyzer and db_manager, as their constructors left
\* them
InitEnhanced ==
    /\ request = NoRequest
    /\ response = NoResponse
    /\ selected = None
    /\ ai_analyzer \in {NotLoaded, Loaded}
    /\ db_manager \in {NotConnected, Connected}
    /\ tables = NoRows
    /\ cwd = "/app"
    /\ files = {}
    /\ procs = NoProcs

NextEnhanced ==
    \/ OnEnhancedAiAnalysis
    \/ Reply

SpecEnhanced == InitEnhanced /\ [][NextEnhanced]_vars

\* C29: the response of POST /ai/enhanced-analysis reports database_saved =
\* true only if save_ai_analysis stored the analysis: the client is there,
\* the insert did not raise, and the newest row of ai_analyses is the
\* analysis of the request; with the client absent or the insert raising the
\* response does not claim the analysis was saved.
C29_SavedOnlyIfStored ==
    (request.handler = "enhanced_ai_analysis" /\ response.status = 200) =>
        (response.body.database_saved = TRUE =>
             /\ ~Degraded
             /\ tables.ai_analyses # <<>>
             /\ tables.ai_analyses[Len(tables.ai_analyses)].pattern_id
                    = request.pattern_id)

====
